---------------------------- MODULE Spec2Model ----------------------------
(***************************************************************************)
(* Cooktube backend: identity and session management                       *)
(* (backend/app/auth.py) and the endpoints of backend/app/routes.py that   *)
(* resolve the caller's identity.                                          *)
(*                                                                         *)
(* Time.  The wall clock is real valued; the model keeps floor(t * TPS),   *)
(* a count of ticks of 1/TicksPerSec second.  datetime values keep their   *)
(* sub-second part (ticks); the exp and iat claims of a token are whole    *)
(* seconds, because jwt.encode converts a datetime with                    *)
(* timegm(utctimetuple()), which drops the fraction.                       *)
(*                                                                         *)
(* Tokens.  A JWT is modelled by its three segments: the header's alg, the *)
(* payload, and the signature HS256(payload, key), modelled as the pair of *)
(* the key and the signed payload (a MAC without collisions).              *)
(***************************************************************************)
EXTENDS Integers, Sequences, FiniteSets, TLC

\* ------------------------------------------------------------------ bounds
TicksPerSec == 2
MaxTime == 6
MaxPairs == 2

VARIABLES cfg, now, jar, resp, cb, race, db, admitted

\* The absent value of Python (None)
None == "None"

\* --------------------------------------------------------------- _parse_ttl
Digits == <<"0", "1", "2", "3", "4", "5", "6", "7", "8", "9">>

IsDigit(c) == \E i \in 1..10 : Digits[i] = c

DigitVal(c) == (CHOOSE i \in 1..10 : Digits[i] = c) - 1

\* str.strip() of the blanks int() ignores around a literal
RECURSIVE LStrip(_)
LStrip(s) == IF s # <<>> /\ Head(s) = " " THEN LStrip(Tail(s)) ELSE s

RECURSIVE RStrip(_)
RStrip(s) ==
    IF s # <<>> /\ s[Len(s)] = " " THEN RStrip(SubSeq(s, 1, Len(s) - 1)) ELSE s

\* The value of a digit string with single underscores allowed between digits
\* (PEP 515); ok is FALSE where int() raises ValueError.
RECURSIVE DigitsValue(_, _, _)
DigitsValue(s, acc, prevDigit) ==
    IF s = <<>> THEN [ok |-> prevDigit, val |-> acc]
    ELSE IF IsDigit(Head(s))
         THEN DigitsValue(Tail(s), acc * 10 + DigitVal(Head(s)), TRUE)
    ELSE IF Head(s) = "_" /\ prevDigit /\ Tail(s) # <<>>
         THEN DigitsValue(Tail(s), acc, FALSE)
    ELSE [ok |-> FALSE, val |-> 0]

\* Python's int(str): blanks stripped, an optional sign, decimal digits.
PyInt(str) ==
    LET s == RStrip(LStrip(str))
        signed == s # <<>> /\ Head(s) \in {"+", "-"}
        body == IF signed THEN Tail(s) ELSE s
        d == DigitsValue(body, 0, FALSE)
    IN  IF ~d.ok THEN [ok |-> FALSE, val |-> 0]
        ELSE [ok |-> TRUE,
              val |-> IF signed /\ Head(s) = "-" THEN 0 - d.val ELSE d.val]

EndsWith(s, c) == s # <<>> /\ s[Len(s)] = c

ButLast(s) == SubSeq(s, 1, Len(s) - 1)

SecondsPerMinute == 60
SecondsPerHour == 3600
SecondsPerDay == 86400
DefaultTtlMinutes == 15

\* timedelta(...) raises OverflowError for more than 999999999 days either
\* way.  Of the counts this model's integers hold, only a count of days can
\* be that large.
TimedeltaFits(n, unit) ==
    unit # SecondsPerDay \/ (n >= 0 - 999999999 /\ n <= 999999999)

\* _parse_ttl reading the hours as minutes
_parse_ttl_hours_as_minutes(ttl) ==
    LET unit == IF EndsWith(ttl, "m") THEN SecondsPerMinute
                ELSE IF EndsWith(ttl, "h") THEN SecondsPerMinute
                ELSE IF EndsWith(ttl, "d") THEN SecondsPerDay
                ELSE 1
        n == IF unit = 1 THEN PyInt(ttl) ELSE PyInt(ButLast(ttl))
    IN  IF n.ok /\ TimedeltaFits(n.val, unit)
        THEN n.val * unit ELSE DefaultTtlMinutes * SecondsPerMinute

\* auth.py _parse_ttl: the timedelta, in seconds.  Every exception, of int()
\* and of timedelta() alike, ends in the default.
_parse_ttl(ttl) ==
    LET unit == IF EndsWith(ttl, "m") THEN SecondsPerMinute
                ELSE IF EndsWith(ttl, "h") THEN SecondsPerHour
                ELSE IF EndsWith(ttl, "d") THEN SecondsPerDay
                ELSE 1
        n == IF unit = 1 THEN PyInt(ttl) ELSE PyInt(ButLast(ttl))
    IN  IF n.ok /\ TimedeltaFits(n.val, unit)
        THEN n.val * unit ELSE DefaultTtlMinutes * SecondsPerMinute


\* ------------------------------------------------------------ configuration
\* auth.py 29-39 and the NODE_ENV read of 97: the process environment, read
\* once at import.  Strings the code inspects character by character are
\* sequences of characters.
LowerTable ==
    [c \in {"A", "L", "X", "N", "O", "E", "S", "T", "R", "I", "C"} |->
        CASE c = "A" -> "a" [] c = "L" -> "l" [] c = "X" -> "x"
          [] c = "N" -> "n" [] c = "O" -> "o" [] c = "E" -> "e"
          [] c = "S" -> "s" [] c = "T" -> "t" [] c = "R" -> "r"
          [] c = "I" -> "i" [] c = "C" -> "c"]

\* str.lower()
Lower(s) ==
    [i \in 1..Len(s) |-> IF s[i] \in DOMAIN LowerTable THEN LowerTable[s[i]] ELSE s[i]]

JWT_SECRET == cfg.JWT_SECRET
ACCESS_TOKEN_TTL == cfg.ACCESS_TOKEN_TTL
REFRESH_TOKEN_TTL == cfg.REFRESH_TOKEN_TTL
GOOGLE_CLIENT_ID == cfg.GOOGLE_CLIENT_ID
GOOGLE_CLIENT_SECRET == cfg.GOOGLE_CLIENT_SECRET
OAUTH_REDIRECT_URI == cfg.OAUTH_REDIRECT_URI
FRONTEND_ORIGIN == cfg.FRONTEND_ORIGIN
COOKIE_SAMESITE == Lower(cfg.COOKIE_SAMESITE)
NODE_ENV == cfg.NODE_ENV

\* ------------------------------------------------------------------- tokens
NoPayload ==
    [sub |-> None, email |-> None, name |-> None, picture |-> None,
     type |-> None, exp |-> 0, iat |-> 0]

\* HMAC-SHA256 of the signing input under a key
HS256(payload, key) == [key |-> key, msg |-> payload]

NoSig == HS256(NoPayload, None)

\* A cookie value that is no JWT: the empty string, or text without three
\* segments.
RawToken(text) == [raw |-> text, alg |-> None, payload |-> NoPayload, sig |-> NoSig]

\* datetime -> NumericDate: whole seconds, the fraction dropped
NumericDate(ticks) == ticks \div TicksPerSec

\* jwt.encode(payload, key, algorithm): exp and iat are datetimes (ticks)
jwt_encode(payload, key, algorithm) ==
    LET claims == [payload EXCEPT !.exp = NumericDate(payload.exp),
                                  !.iat = NumericDate(payload.iat)]
    IN  [raw |-> "jwt", alg |-> algorithm, payload |-> claims,
         sig |-> HS256(claims, key)]

\* jwt.decode accepting a token during the second its exp names (exp < now)
jwt_decode_late(token, key, algorithms, t) ==
    IF token.raw # "jwt"
        THEN [ok |-> FALSE, err |-> "DecodeError", payload |-> NoPayload]
    ELSE IF token.alg \notin algorithms
        THEN [ok |-> FALSE, err |-> "InvalidAlgorithmError", payload |-> NoPayload]
    ELSE IF token.sig # HS256(token.payload, key)
        THEN [ok |-> FALSE, err |-> "InvalidSignatureError", payload |-> NoPayload]
    ELSE IF token.payload.exp * TicksPerSec < t
        THEN [ok |-> FALSE, err |-> "ExpiredSignatureError", payload |-> NoPayload]
    ELSE [ok |-> TRUE, err |-> None, payload |-> token.payload]

\* jwt.decode(token, key, algorithms) at clock reading t: the claims, or the
\* exception raised.  Segments are split first, then the algorithm and the
\* signature are checked, then the exp claim (expired when exp <= now).
jwt_decode(token, key, algorithms, t) ==
    IF token.raw # "jwt"
        THEN [ok |-> FALSE, err |-> "DecodeError", payload |-> NoPayload]
    ELSE IF token.alg \notin algorithms
        THEN [ok |-> FALSE, err |-> "InvalidAlgorithmError", payload |-> NoPayload]
    ELSE IF token.sig # HS256(token.payload, key)
        THEN [ok |-> FALSE, err |-> "InvalidSignatureError", payload |-> NoPayload]
    ELSE IF token.payload.exp * TicksPerSec <= t
        THEN [ok |-> FALSE, err |-> "ExpiredSignatureError", payload |-> NoPayload]
    ELSE [ok |-> TRUE, err |-> None, payload |-> token.payload]

\* _issue_tokens with the refresh payload's name taken from the email
_issue_tokens_name_slip(user, utcnow) ==
    LET access_exp == utcnow + _parse_ttl(ACCESS_TOKEN_TTL) * TicksPerSec
        refresh_exp == utcnow + _parse_ttl(REFRESH_TOKEN_TTL) * TicksPerSec
        payload == [sub |-> user.id, email |-> user.email, name |-> user.name,
                    picture |-> user.picture, type |-> None,
                    exp |-> access_exp, iat |-> utcnow]
        refresh_payload == [sub |-> user.id, email |-> user.email,
                            name |-> user.email, picture |-> user.picture,
                            type |-> "refresh", exp |-> refresh_exp, iat |-> utcnow]
    IN  [access |-> jwt_encode(payload, JWT_SECRET, "HS256"),
         refresh |-> jwt_encode(refresh_payload, JWT_SECRET, "HS256"),
         access_exp |-> access_exp, refresh_exp |-> refresh_exp]

\* auth.py _issue_tokens, with utcnow the reading of datetime.utcnow()
_issue_tokens(user, utcnow) ==
    LET access_exp == utcnow + _parse_ttl(ACCESS_TOKEN_TTL) * TicksPerSec
        refresh_exp == utcnow + _parse_ttl(REFRESH_TOKEN_TTL) * TicksPerSec
        payload == [sub |-> user.id, email |-> user.email, name |-> user.name,
                    picture |-> user.picture, type |-> None,
                    exp |-> access_exp, iat |-> utcnow]
        refresh_payload == [sub |-> user.id, email |-> user.email,
                            name |-> user.name, picture |-> user.picture,
                            type |-> "refresh", exp |-> refresh_exp, iat |-> utcnow]
    IN  [access |-> jwt_encode(payload, JWT_SECRET, "HS256"),
         refresh |-> jwt_encode(refresh_payload, JWT_SECRET, "HS256"),
         access_exp |-> access_exp, refresh_exp |-> refresh_exp]

\* _verify_token decoding without the signature check
\* (options={"verify_signature": False}): only the shape and exp are checked
_verify_token_unverified(token, t) ==
    IF token.raw = "jwt" /\ token.payload.exp * TicksPerSec > t
    THEN <<token.payload>> ELSE <<>>

\* auth.py _verify_token: <<claims>>, or <<>> for None (every exception of
\* jwt.decode is swallowed)
_verify_token(token, t) ==
    LET r == jwt_decode(token, JWT_SECRET, {"HS256"}, t)
    IN  IF r.ok THEN <<r.payload>> ELSE <<>>

\* ------------------------------------------------------------------ cookies
\* int(timedelta.total_seconds()): truncation toward zero
IntSeconds(ticks) ==
    IF ticks >= 0 THEN ticks \div TicksPerSec ELSE 0 - ((0 - ticks) \div TicksPerSec)

Lax == <<"l", "a", "x">>
SameSiteNone == <<"n", "o", "n", "e">>
Strict == <<"s", "t", "r", "i", "c", "t">>

\* _set_auth_cookies with the two lifetimes crossed: each cookie gets the
\* Max-Age of the other token
_set_auth_cookies_crossed(access, refresh, access_exp, refresh_exp, t1, t2) ==
    LET secure_env == NODE_ENV = "production"
        secure == IF COOKIE_SAMESITE = SameSiteNone THEN TRUE ELSE secure_env
        samesite == IF COOKIE_SAMESITE \in {Lax, SameSiteNone, Strict}
                    THEN COOKIE_SAMESITE ELSE Lax
    IN  << [key |-> "access_token", value |-> access, httponly |-> TRUE,
            secure |-> secure, samesite |-> samesite, path |-> "/",
            max_age |-> IntSeconds(refresh_exp - t1), expires |-> <<>>],
           [key |-> "refresh_token", value |-> refresh, httponly |-> TRUE,
            secure |-> secure, samesite |-> samesite, path |-> "/",
            max_age |-> IntSeconds(access_exp - t2), expires |-> <<>>] >>
\* _set_auth_cookies taking Secure from the deployment mode alone
_set_auth_cookies_env_only(access, refresh, access_exp, refresh_exp, t1, t2) ==
    LET secure == NODE_ENV = "production"
        samesite == IF COOKIE_SAMESITE \in {Lax, SameSiteNone, Strict}
                    THEN COOKIE_SAMESITE ELSE Lax
    IN  << [key |-> "access_token", value |-> access, httponly |-> TRUE,
            secure |-> secure, samesite |-> samesite, path |-> "/",
            max_age |-> IntSeconds(access_exp - t1), expires |-> <<>>],
           [key |-> "refresh_token", value |-> refresh, httponly |-> TRUE,
            secure |-> secure, samesite |-> samesite, path |-> "/",
            max_age |-> IntSeconds(refresh_exp - t2), expires |-> <<>>] >>

\* _set_auth_cookies passing the configured SameSite string on as it is
_set_auth_cookies_unchecked(access, refresh, access_exp, refresh_exp, t1, t2) ==
    LET secure_env == NODE_ENV = "production"
        secure == IF COOKIE_SAMESITE = SameSiteNone THEN TRUE ELSE secure_env
    IN  << [key |-> "access_token", value |-> access, httponly |-> TRUE,
            secure |-> secure, samesite |-> COOKIE_SAMESITE, path |-> "/",
            max_age |-> IntSeconds(access_exp - t1), expires |-> <<>>],
           [key |-> "refresh_token", value |-> refresh, httponly |-> TRUE,
            secure |-> secure, samesite |-> COOKIE_SAMESITE, path |-> "/",
            max_age |-> IntSeconds(refresh_exp - t2), expires |-> <<>>] >>
\* auth.py _set_auth_cookies; t1 and t2 are its two readings of utcnow()
_set_auth_cookies(access, refresh, access_exp, refresh_exp, t1, t2) ==
    LET secure_env == NODE_ENV = "production"
        secure == IF COOKIE_SAMESITE = SameSiteNone THEN TRUE ELSE secure_env
        samesite == IF COOKIE_SAMESITE \in {Lax, SameSiteNone, Strict}
                    THEN COOKIE_SAMESITE ELSE Lax
    IN  << [key |-> "access_token", value |-> access, httponly |-> TRUE,
            secure |-> secure, samesite |-> samesite, path |-> "/",
            max_age |-> IntSeconds(access_exp - t1), expires |-> <<>>],
           [key |-> "refresh_token", value |-> refresh, httponly |-> TRUE,
            secure |-> secure, samesite |-> samesite, path |-> "/",
            max_age |-> IntSeconds(refresh_exp - t2), expires |-> <<>>] >>

\* Response.delete_cookie: a set_cookie of the empty value with Max-Age 0
delete_cookie(key, path, samesite) ==
    [key |-> key, value |-> RawToken(""), httponly |-> FALSE, secure |-> FALSE,
     samesite |-> samesite, path |-> path, max_age |-> 0, expires |-> <<0>>]

\* _clear_auth_cookies forgetting the refresh cookie
_clear_auth_cookies_access_only ==
    << delete_cookie("access_token", "/", Lax) >>
\* auth.py _clear_auth_cookies
_clear_auth_cookies ==
    << delete_cookie("access_token", "/", Lax),
       delete_cookie("refresh_token", "/", Lax) >>

\* ---------------------------------------------------------------- responses
\* Text is a sequence of pieces (a concatenation); a JSON body has one key.
NoUser == [id |-> None, email |-> None, name |-> None, picture |-> None]

Body(key, text, user) == [key |-> key, text |-> text, user |-> user]

NoBody == Body(None, <<>>, NoUser)

\* dbcalls lists the calls the handler made on its database session.
Response(status, body, cookies, location, dbcalls) ==
    [status |-> status, body |-> body, cookies |-> cookies,
     location |-> location, dbcalls |-> dbcalls]

JSONResponse(body, status) == Response(status, body, <<>>, <<>>, <<>>)

\* What FastAPI answers for a raised HTTPException
HTTPException(status, detail) ==
    Response(status, Body("detail", detail, NoUser), <<>>, <<>>, <<>>)

\* auth.py 132 and 147
Unauthorized401 == JSONResponse(Body("message", <<"Unauthorized">>, NoUser), 401)

\* request.cookies.get(key): <<>> for None, else <<value>>
CookiesGet(request, key) == request.cookies[key]

\* Python truth of an optional string
TruthyToken(token) == token # <<>> /\ token[1].raw # ""

UserOf(payload) ==
    [id |-> payload.sub, email |-> payload.email, name |-> payload.name,
     picture |-> payload.picture]

\* auth.py get_current_user at clock reading t: the user, or the exception
get_current_user(request, t) ==
    LET token == CookiesGet(request, "access_token")
        payload == IF TruthyToken(token) THEN _verify_token(token[1], t) ELSE <<>>
    IN  IF payload = <<>>
        THEN [raised |-> TRUE, user |-> NoUser,
              error |-> HTTPException(401, <<"Unauthorized">>)]
        ELSE [raised |-> FALSE, user |-> UserOf(payload[1]), error |-> NoBody]

\* me telling a missing cookie from a refused one
me_detailed(request, t) ==
    LET token == CookiesGet(request, "access_token")
        payload == IF TruthyToken(token) THEN _verify_token(token[1], t) ELSE <<>>
    IN  IF ~TruthyToken(token)
        THEN JSONResponse(Body("message", <<"Not authenticated">>, NoUser), 401)
        ELSE IF payload = <<>>
        THEN JSONResponse(Body("message", <<"Unauthorized">>, NoUser), 401)
        ELSE Response(200, Body("user", <<>>, UserOf(payload[1])), <<>>, <<>>, <<>>)

\* me backed by a server-side session that a logout ends
me_session(request, t) ==
    LET token == CookiesGet(request, "access_token")
        payload == IF TruthyToken(token) THEN _verify_token(token[1], t) ELSE <<>>
    IN  IF payload = <<>> \/ resp.after = "logout"
        THEN Unauthorized401
        ELSE Response(200, Body("user", <<>>, UserOf(payload[1])), <<>>, <<>>, <<>>)
\* auth.py me (GET /api/auth/me)
me(request, t) ==
    LET token == CookiesGet(request, "access_token")
        payload == IF TruthyToken(token) THEN _verify_token(token[1], t) ELSE <<>>
    IN  IF payload = <<>>
        THEN Unauthorized401
        ELSE Response(200, Body("user", <<>>, UserOf(payload[1])), <<>>, <<>>, <<>>)

\* refresh keeping the expiry of the presented refresh token for the new one
\* (a session that ends a fixed time after its login)
refresh_accept_absolute(payload, clk) ==
    LET tk == _issue_tokens(UserOf(payload), clk[2])
        absolute_exp == payload.exp * TicksPerSec
        kept == jwt_encode([tk.refresh.payload EXCEPT !.exp = absolute_exp,
                                                      !.iat = clk[2]],
                           JWT_SECRET, "HS256")
    IN  Response(200, Body("ok", <<"true">>, NoUser),
                 _set_auth_cookies(tk.access, kept, tk.access_exp, absolute_exp,
                                   clk[3], clk[4]),
                 <<>>, <<>>)
\* auth.py refresh, lines 148-157: the answer to a refresh token accepted
\* with these claims
refresh_accept(payload, clk) ==
    LET tk == _issue_tokens(UserOf(payload), clk[2])
    IN  Response(200, Body("ok", <<"true">>, NoUser),
                 _set_auth_cookies(tk.access, tk.refresh, tk.access_exp,
                                   tk.refresh_exp, clk[3], clk[4]),
                 <<>>, <<>>)

\* refresh without the check of the token's type
refresh_any_kind(request, clk) ==
    LET token == CookiesGet(request, "refresh_token")
        payload == IF TruthyToken(token) THEN _verify_token(token[1], clk[1]) ELSE <<>>
    IN  IF payload = <<>> THEN Unauthorized401 ELSE refresh_accept(payload[1], clk)

\* refresh rebuilding the user from the subject alone
refresh_sub_only(request, clk) ==
    LET token == CookiesGet(request, "refresh_token")
        payload == IF TruthyToken(token) THEN _verify_token(token[1], clk[1]) ELSE <<>>
    IN  IF payload = <<>> \/ payload[1].type # "refresh" THEN Unauthorized401
        ELSE refresh_accept([NoPayload EXCEPT !.sub = payload[1].sub], clk)

\* refresh with one-time-use rotation: the refresh token used last is refused
refresh_denylist(request, clk) ==
    LET token == CookiesGet(request, "refresh_token")
        payload == IF TruthyToken(token) THEN _verify_token(token[1], clk[1]) ELSE <<>>
    IN  IF payload = <<>> \/ payload[1].type # "refresh" \/ token = resp.req
        THEN Unauthorized401
        ELSE refresh_accept(payload[1], clk)

\* refresh refusing a token that a concurrent request has just rotated
refresh_once(request, clk) ==
    LET token == CookiesGet(request, "refresh_token")
        payload == IF TruthyToken(token) THEN _verify_token(token[1], clk[1]) ELSE <<>>
        rotated == \E i \in 1..2 : race.out[i] # <<>> /\ race.out[i][1].status = 200
    IN  IF payload = <<>> \/ payload[1].type # "refresh" \/ rotated
        THEN Unauthorized401
        ELSE refresh_accept(payload[1], clk)

\* refresh ending the session on a refused token: the 401 deletes both cookies
refresh_clearing(request, clk) ==
    LET token == CookiesGet(request, "refresh_token")
        payload == IF TruthyToken(token) THEN _verify_token(token[1], clk[1]) ELSE <<>>
    IN  IF payload = <<>> \/ payload[1].type # "refresh"
        THEN Response(401, Body("message", <<"Unauthorized">>, NoUser),
                      _clear_auth_cookies, <<>>, <<>>)
        ELSE refresh_accept(payload[1], clk)
\* auth.py refresh (POST /api/auth/refresh); clk are its clock readings, in
\* order: jwt.decode, _issue_tokens, and the two of _set_auth_cookies
refresh(request, clk) ==
    LET token == CookiesGet(request, "refresh_token")
        payload == IF TruthyToken(token) THEN _verify_token(token[1], clk[1]) ELSE <<>>
    IN  IF payload = <<>> \/ payload[1].type # "refresh"
        THEN Unauthorized401
        ELSE refresh_accept(payload[1], clk)

\* auth.py logout (POST /api/auth/logout)
logout ==
    Response(200, Body("ok", <<"true">>, NoUser), _clear_auth_cookies, <<>>, <<>>)

\* routes.py get_tags (GET /api/tags), an endpoint behind
\* Depends(get_current_user); the body names the user whose rows are read
get_tags(request, t) ==
    LET current_user == get_current_user(request, t)
    IN  IF current_user.raised THEN current_user.error
        ELSE Response(200, Body("tags", <<>>, current_user.user), <<>>, <<>>,
                      <<"get_all_tags">>)

\* str(HTTPException): "<status>: <detail>"
StrHTTPException(status, detail) == <<status, ": ">> \o detail

\* routes.py import_data (POST /api/import), lines 20-40 and 95-114: the
\* identification of the caller inside the handler's try block, and what the
\* handler's except clause makes of an exception raised there.  request.scope
\* holds no 'user' (no middleware of main.py sets one).
import_data(request, t) ==
    LET token == CookiesGet(request, "access_token")
        payload == IF TruthyToken(token) THEN _verify_token(token[1], t) ELSE <<>>
    IN  IF payload = <<>>
        THEN \* raise HTTPException(401) is caught by "except Exception"
             Response(500,
                 Body("detail",
                      <<"Import failed: ">> \o StrHTTPException("401", <<"Unauthorized">>),
                      NoUser),
                 <<>>, <<>>, <<"rollback">>)
        ELSE Response(200, Body("import", <<>>, [NoUser EXCEPT !.id = payload[1].sub]),
                      <<>>, <<>>, <<"get_all_tags", "get_all_tags", "commit">>)

\* ----------------------------------------------------------- OAuth2 callback
\* auth.py google_callback runs in three pieces, split at its two awaits.
CallbackPath == "/api/auth/google/callback"

\* google_callback checking the credentials before the code
callback_begin_credentials_first(request) ==
    IF GOOGLE_CLIENT_ID \in {None, ""} \/ GOOGLE_CLIENT_SECRET \in {None, ""}
        THEN [failed |-> TRUE, redirect_uri |-> <<>>,
              error |-> HTTPException(500, <<"Missing Google OAuth credentials">>)]
    ELSE IF request.code = <<>>
        THEN [failed |-> TRUE, redirect_uri |-> <<>>,
              error |-> HTTPException(400, <<"Missing authorization code">>)]
    ELSE [failed |-> FALSE,
          redirect_uri |->
              IF OAUTH_REDIRECT_URI # <<>> THEN OAUTH_REDIRECT_URI
              ELSE <<(IF request.scheme = "https" THEN "https" ELSE "http"),
                     "://", request.host, CallbackPath>>,
          error |-> NoBody]
\* lines 169-183, up to the POST to the token endpoint: the error answered,
\* or the redirect_uri the POST carries
callback_begin(request) ==
    IF request.code = <<>>
        THEN [failed |-> TRUE, redirect_uri |-> <<>>,
              error |-> HTTPException(400, <<"Missing authorization code">>)]
    ELSE IF GOOGLE_CLIENT_ID \in {None, ""} \/ GOOGLE_CLIENT_SECRET \in {None, ""}
        THEN [failed |-> TRUE, redirect_uri |-> <<>>,
              error |-> HTTPException(500, <<"Missing Google OAuth credentials">>)]
    ELSE [failed |-> FALSE,
          redirect_uri |->
              IF OAUTH_REDIRECT_URI # <<>> THEN OAUTH_REDIRECT_URI
              ELSE <<(IF request.scheme = "https" THEN "https" ELSE "http"),
                     "://", request.host, CallbackPath>>,
          error |-> NoBody]

\* the token step answering a provider error without the provider's body
callback_on_token_terse(token_res) ==
    IF token_res.status_code # 200
        THEN [failed |-> TRUE, id_token |-> <<>>,
              error |-> HTTPException(400, <<"Token exchange failed">>)]
    ELSE IF token_res.id_token = <<>>
        THEN [failed |-> TRUE, id_token |-> <<>>,
              error |-> HTTPException(400, <<"Missing id_token in response">>)]
    ELSE [failed |-> FALSE, id_token |-> token_res.id_token, error |-> NoBody]
\* lines 198-203, on the token endpoint's answer: the error answered, or the
\* id_token sent on to tokeninfo
callback_on_token(token_res) ==
    IF token_res.status_code # 200
        THEN [failed |-> TRUE, id_token |-> <<>>,
              error |-> HTTPException(400, <<"Token exchange failed: ", token_res.text>>)]
    ELSE IF token_res.id_token = <<>>
        THEN [failed |-> TRUE, id_token |-> <<>>,
              error |-> HTTPException(400, <<"Missing id_token in response">>)]
    ELSE [failed |-> FALSE, id_token |-> token_res.id_token, error |-> NoBody]

\* str.rstrip("/") of a text given as pieces
RECURSIVE RStripSlash(_)
RStripSlash(s) ==
    IF s # <<>> /\ s[Len(s)] = "/" THEN RStripSlash(ButLast(s)) ELSE s

\* the tokeninfo step refusing only an audience that is present and differs
callback_on_info_lenient(request, info_res, clk) ==
    IF info_res.status_code # 200
        THEN HTTPException(400, <<"Invalid ID token">>)
    ELSE IF info_res.info.aud # None /\ info_res.info.aud # GOOGLE_CLIENT_ID
        THEN HTTPException(400, <<"ID token audience mismatch">>)
    ELSE LET info == info_res.info
             user == [id |-> info.sub, email |-> info.email,
                      name |-> IF info.name \in {None, ""} THEN info.email
                               ELSE info.name,
                      picture |-> info.picture]
             tk == _issue_tokens(user, clk[1])
             state == IF request.state = <<>> THEN <<"/">> ELSE request.state
             redir_base == RStripSlash(FRONTEND_ORIGIN)
         IN  Response(302, NoBody,
                      _set_auth_cookies(tk.access, tk.refresh, tk.access_exp,
                                        tk.refresh_exp, clk[2], clk[3]),
                      redir_base \o state, <<>>)
\* lines 209-229, on tokeninfo's answer; clk are the clock readings of
\* _issue_tokens and of the two cookies
callback_on_info(request, info_res, clk) ==
    IF info_res.status_code # 200
        THEN HTTPException(400, <<"Invalid ID token">>)
    ELSE IF info_res.info.aud # GOOGLE_CLIENT_ID
        THEN HTTPException(400, <<"ID token audience mismatch">>)
    ELSE LET info == info_res.info
             user == [id |-> info.sub, email |-> info.email,
                      name |-> IF info.name \in {None, ""} THEN info.email
                               ELSE info.name,
                      picture |-> info.picture]
             tk == _issue_tokens(user, clk[1])
             state == IF request.state = <<>> THEN <<"/">> ELSE request.state
             redir_base == RStripSlash(FRONTEND_ORIGIN)
         IN  Response(302, NoBody,
                      _set_auth_cookies(tk.access, tk.refresh, tk.access_exp,
                                        tk.refresh_exp, clk[2], clk[3]),
                      redir_base \o state, <<>>)

\* An exception no handler catches: Starlette answers 500
InternalServerError ==
    Response(500, Body("text", <<"Internal Server Error">>, NoUser), <<>>, <<>>, <<>>)

\* --------------------------------------------------------------- the store
\* models.py.  A table is the set of its rows.  videos.id is the primary key
\* of videos whoever the owner is; tags.name, (video_id, tag_id) of
\* video_tags and (video_id, client_note_id) of notes are unique.  The
\* integer keys of tags and notes are handed out by the database; the row id
\* of a video_tags row is read nowhere and left out.
Video(id, user_id, url, title) ==
    [id |-> id, user_id |-> user_id, url |-> url, title |-> title]

Tag(id, name) == [id |-> id, name |-> name]

VideoTag(video_id, tag_id) == [video_id |-> video_id, tag_id |-> tag_id]

Note(id, video_id, client_note_id, timestamp_sec, content) ==
    [id |-> id, video_id |-> video_id, client_note_id |-> client_note_id,
     timestamp_sec |-> timestamp_sec, content |-> content]

\* The database with its tables created and the option the session factory
\* of app/database.py was made with (the tests make theirs with
\* autoflush=False; SQLAlchemy's own default is True)
EmptyDatabase(autoflush) ==
    [videos |-> {}, tags |-> {}, video_tags |-> {}, notes |-> {},
     autoflush |-> autoflush]

\* INTEGER PRIMARY KEY: one more than the largest key in the table
NextId(rows) ==
    IF rows = {} THEN 1
    ELSE (CHOOSE m \in { r.id : r \in rows } : \A r \in rows : r.id <= m) + 1

\* ---- the SQLAlchemy session of one request (get_db): what the request's
\* transaction sees of the tables, the objects added and not yet flushed
\* (new), and whether a flush has failed.  After a failed flush the
\* transaction is rolled back and every further use of the session raises,
\* until the handler ends: an operation on a raised session does nothing.
SessionLocal(d) ==
    [videos |-> d.videos, tags |-> d.tags, video_tags |-> d.video_tags,
     notes |-> d.notes, autoflush |-> d.autoflush, new |-> <<>>, raised |-> FALSE]

\* INSERT of the pending rows in the order they were added; a row that
\* breaks a unique index raises IntegrityError
RECURSIVE Insert(_, _)
Insert(s, pending) ==
    IF pending = <<>> THEN [s EXCEPT !.new = <<>>]
    ELSE LET o == Head(pending)
         IN  IF o.table = "video_tags"
             THEN IF o.row \in s.video_tags
                  THEN [s EXCEPT !.new = <<>>, !.raised = TRUE]
                  ELSE Insert([s EXCEPT !.video_tags = @ \cup {o.row}], Tail(pending))
             ELSE IF \E n \in s.notes : /\ n.video_id = o.row.video_id
                                        /\ n.client_note_id = o.row.client_note_id
                  THEN [s EXCEPT !.new = <<>>, !.raised = TRUE]
                  ELSE Insert([s EXCEPT !.notes =
                                  @ \cup {[o.row EXCEPT !.id = NextId(s.notes)]}],
                              Tail(pending))

\* Session.flush()
flush(s) == IF s.raised THEN s ELSE Insert(s, s.new)

\* what a Query does before it emits its SQL
autoflush(s) == IF s.autoflush THEN flush(s) ELSE s

\* Session.add() of a video_tags or notes object
add(s, table, row) ==
    IF s.raised THEN s ELSE [s EXCEPT !.new = Append(@, [table |-> table, row |-> row])]

\* F of the value of v: a statement's result, worked out once and named
With(v, F(_)) == CHOOSE r \in { F(x) : x \in {v} } : TRUE

\* Session.commit(): the flush, then COMMIT; the database after it.  Where
\* the flush raises, or the session had raised before, nothing of the
\* request's transaction is kept.
commit(d, s) ==
    With(flush(s), LAMBDA f :
        IF f.raised THEN d
        ELSE [videos |-> f.videos, tags |-> f.tags, video_tags |-> f.video_tags,
              notes |-> f.notes, autoflush |-> d.autoflush])

\* str.strip() of a tag name
Strip(s) == RStrip(LStrip(s))

\* ---- crud.py.  A function that queries takes the session and gives the
\* session back beside its value, since a query may flush.
\* get_video: .first() of at most one row, the empty set for None
crud_get_video_unscoped(s, user_id, video_id) ==
    { v \in s.videos : v.id = video_id }

crud_get_video(s, user_id, video_id) ==
    { v \in s.videos : v.id = video_id /\ v.user_id = user_id }

\* get_or_create_tag
get_or_create_tag(s, name) ==
    With(Strip(name), LAMBDA tag_name :
    With(autoflush(s), LAMBDA q :
    With({ t \in q.tags : Lower(t.name) = Lower(tag_name) }, LAMBDA db_tag :
        IF q.raised THEN [s |-> q, tag |-> Tag(0, tag_name)]
        ELSE IF db_tag # {} THEN [s |-> q, tag |-> CHOOSE t \in db_tag : TRUE]
        ELSE With(flush(q), LAMBDA f :
             With(Tag(NextId(f.tags), tag_name), LAMBDA new_tag :
                 IF f.raised THEN [s |-> f, tag |-> Tag(0, tag_name)]
                 ELSE [s |-> [f EXCEPT !.tags = @ \cup {new_tag}], tag |-> new_tag])))))

RECURSIVE add_tags_to_video(_, _, _)
add_tags_to_video(s, video_id, tag_names) ==
    IF tag_names = <<>> \/ s.raised THEN s
    ELSE IF Strip(Head(tag_names)) = <<>>
    THEN add_tags_to_video(s, video_id, Tail(tag_names))
    ELSE With(get_or_create_tag(s, Head(tag_names)), LAMBDA g :
         With(autoflush(g.s), LAMBDA q :
         With(VideoTag(video_id, g.tag.id), LAMBDA video_tag :
         With(video_tag \in q.video_tags, LAMBDA existing :
             add_tags_to_video(IF existing THEN q ELSE add(q, "video_tags", video_tag),
                               video_id, Tail(tag_names))))))

\* Query(VideoTag).filter(video_id == ...).delete(): a DELETE statement,
\* which the pending objects of the session are no part of
delete_video_tags(s, video_id) ==
    With(autoflush(s), LAMBDA q :
        IF q.raised THEN q
        ELSE [q EXCEPT !.video_tags = { l \in @ : l.video_id # video_id }])

\* get_video_tags: the names of the tags linked to the user's video
crud_get_video_tags(s, user_id, video_id) ==
    IF crud_get_video(s, user_id, video_id) = {} THEN {}
    ELSE { t.name : t \in { t \in s.tags : VideoTag(video_id, t.id) \in s.video_tags } }

\* get_all_tags: the Tag entities joined to a video of the user; a Query of
\* one entity gives each entity once
get_all_tags(s, user_id) ==
    { t \in s.tags :
        \E v \in s.videos : v.user_id = user_id /\ VideoTag(v.id, t.id) \in s.video_tags }

crud_get_videos(s, user_id) == { v \in s.videos : v.user_id = user_id }

crud_get_video_notes(s, user_id, video_id) ==
    IF crud_get_video(s, user_id, video_id) = {} THEN {}
    ELSE { n \in s.notes : n.video_id = video_id }

\* db.add(db_video); db.flush(): the INSERT raises IntegrityError where a
\* row with this id exists, whoever owns it
add_video(s, db_video) ==
    With(flush(s), LAMBDA f :
        IF f.raised THEN f
        ELSE IF \E v \in f.videos : v.id = db_video.id THEN [f EXCEPT !.raised = TRUE]
        ELSE [f EXCEPT !.videos = @ \cup {db_video}])

\* the functions of crud.py that commit give the database after them, and
\* whether an exception left them.  An Optional argument is <<>> for None,
\* else <<the value>>.
crud_create_video(d, s, user_id, video, video_id) ==
    With(Video(video_id, user_id, video.url, video.title), LAMBDA db_video :
    With(add_video(s, db_video), LAMBDA added :
    With(IF video.tags # <<>>
         THEN add_tags_to_video(added, video_id, video.tags) ELSE added, LAMBDA tagged :
        [db |-> commit(d, tagged), raised |-> flush(tagged).raised,
         value |-> {db_video}])))

crud_update_video(d, s, user_id, video_id, video_update) ==
    LET db_video == crud_get_video(s, user_id, video_id)
    IN  IF db_video = {} THEN [db |-> d, raised |-> FALSE, value |-> {}]
        ELSE LET old == CHOOSE v \in db_video : TRUE
                 new == IF video_update.title # <<>>
                        THEN [old EXCEPT !.title = video_update.title[1]] ELSE old
                 titled == [s EXCEPT !.videos = (@ \ {old}) \cup {new}]
             IN  With(IF video_update.tags = <<>> THEN titled
                      ELSE IF video_update.tags[1] # <<>>
                      THEN add_tags_to_video(delete_video_tags(titled, video_id),
                                             video_id, video_update.tags[1])
                      ELSE delete_video_tags(titled, video_id), LAMBDA tagged :
                     [db |-> commit(d, tagged), raised |-> flush(tagged).raised,
                      value |-> {new}])

\* db.delete(db_video): the relationships notes and video_tags cascade
\* "all, delete-orphan", so the flush deletes the video's notes and links
\* delete_video with relationships that do not cascade
crud_delete_video_no_cascade(d, s, user_id, video_id) ==
    LET db_video == crud_get_video(s, user_id, video_id)
    IN  IF db_video = {} THEN [db |-> d, value |-> FALSE]
        ELSE [db |-> commit(d, [s EXCEPT !.videos = @ \ db_video]), value |-> TRUE]
crud_delete_video(d, s, user_id, video_id) ==
    LET db_video == crud_get_video(s, user_id, video_id)
    IN  IF db_video = {} THEN [db |-> d, value |-> FALSE]
        ELSE [db |-> commit(d, [s EXCEPT
                          !.videos = @ \ db_video,
                          !.notes = { n \in @ : n.video_id # video_id },
                          !.video_tags = { l \in @ : l.video_id # video_id }]),
              value |-> TRUE]

\* hash(f"{video_id}_{timestamp}_{content}") as text: a value fixed by the
\* three
HashText(video_id, timestamp, content) == <<"hash", video_id, timestamp, content>>

crud_create_note(d, s, user_id, video_id, note) ==
    IF crud_get_video(s, user_id, video_id) = {}
    THEN [db |-> d, raised |-> FALSE, value |-> {}]
    ELSE LET client_note_id ==
                 IF note.id # <<>> /\ note.id[1] # <<>> THEN note.id[1]
                 ELSE HashText(video_id, note.timestamp, note.content)
             db_note == Note(0, video_id, client_note_id, note.timestamp, note.content)
         IN  With(flush(add(s, "notes", db_note)), LAMBDA added :
                 [db |-> commit(d, added), raised |-> added.raised,
                  value |-> { n \in added.notes : /\ n.video_id = video_id
                                                  /\ n.client_note_id = client_note_id }])

crud_delete_note(d, s, user_id, note_id) ==
    LET db_note == { n \in s.notes : n.id = note_id }
        video == { v \in s.videos :
                     \E n \in db_note : v.id = n.video_id /\ v.user_id = user_id }
    IN  IF db_note = {} \/ video = {} THEN [db |-> d, value |-> FALSE]
        ELSE [db |-> commit(d, [s EXCEPT !.notes = @ \ db_note]), value |-> TRUE]

upsert_video_from_import(s, user_id, import_video) ==
    With(autoflush(s), LAMBDA q :
    With(crud_get_video(q, user_id, import_video.id), LAMBDA db_video :
        IF q.raised THEN q
        ELSE IF db_video # {}
        THEN LET old == CHOOSE v \in db_video : TRUE
                 new == [old EXCEPT !.title = import_video.title,
                                    !.url = import_video.url]
             IN  With(delete_video_tags(
                          [q EXCEPT !.videos = (@ \ {old}) \cup {new}],
                          import_video.id), LAMBDA cleared :
                     IF import_video.tags # <<>>
                     THEN add_tags_to_video(cleared, import_video.id, import_video.tags)
                     ELSE cleared)
        ELSE With(add_video(q, Video(import_video.id, user_id,
                                     import_video.url, import_video.title)),
                  LAMBDA created :
                     IF import_video.tags # <<>>
                     THEN add_tags_to_video(created, import_video.id, import_video.tags)
                     ELSE created)))

\* str() of a non-negative int
RECURSIVE PyStr(_)
PyStr(n) == IF n < 10 THEN <<Digits[n + 1]>> ELSE PyStr(n \div 10) \o <<Digits[(n % 10) + 1]>>

\* the query of routes.py 78-82 and crud.py 223-227: the note of the user's
\* video with this client id
existing_note(s, user_id, video_id, client_note_id) ==
    { n \in s.notes :
        /\ n.video_id = video_id
        /\ n.client_note_id = client_note_id
        /\ \E v \in s.videos : v.id = n.video_id /\ v.user_id = user_id }

upsert_note_from_import(s, user_id, video_id, import_note) ==
    With(PyStr(import_note.id), LAMBDA client_note_id :
    With(autoflush(s), LAMBDA q :
    With(existing_note(q, user_id, video_id, client_note_id), LAMBDA found :
        IF q.raised THEN q
        ELSE IF found # {}
        THEN LET old == CHOOSE n \in found : TRUE
             IN  [q EXCEPT !.notes = (@ \ {old}) \cup
                     {[old EXCEPT !.timestamp_sec = import_note.timestamp,
                                  !.content = import_note.content]}]
        ELSE add(q, "notes", Note(0, video_id, client_note_id,
                                  import_note.timestamp, import_note.content)))))

\* ---- utils.py extract_video_id.  A URL is a sequence of pieces: the text
\* each pattern starts with is one piece, the rest are single characters.
\* Patterns 4 and 5 (m. and gaming.) are pattern 1 with more in front, so
\* where they match pattern 1 has matched before them.
Patterns == <<"youtube.com/watch?v=", "youtu.be/", "youtube.com/embed/">>

\* [a-zA-Z0-9_-]
IsIdChar(c) ==
    c \notin {"&", "?", "=", "/", " ", ".", ":", "#", "https://", "www."}
             \cup { Patterns[i] : i \in 1..3 }

\* re.search: the places where the pattern is followed by eleven id characters
Matches(url, pattern) ==
    { i \in 1..Len(url) :
        /\ url[i] = pattern
        /\ i + 11 <= Len(url)
        /\ \A k \in 1..11 : IsIdChar(url[i + k]) }

First(places) == CHOOSE i \in places : \A j \in places : i <= j

\* <<>> for None, else <<the id>>
extract_video_id(text) ==
    LET url == Strip(text)
        hits == { p \in 1..3 : Matches(url, Patterns[p]) # {} }
    IN  IF text = <<>> \/ hits = {} THEN <<>>
        ELSE LET i == First(Matches(url, Patterns[First(hits)]))
             IN  <<SubSeq(url, i + 1, i + 11)>>

\* ---- schemas.py
\* max_items of the tags of VideoCreate and VideoUpdate, and the length of
\* the slice [:20] of routes.py 315
MaxTags == 20

\* validate_tags of VideoCreate and VideoUpdate (the list has at most 20 items)
RECURSIVE validate_tags(_)
validate_tags(v) ==
    IF v = <<>> THEN <<>>
    ELSE IF Strip(Head(v)) # <<>> THEN <<Strip(Head(v))>> \o validate_tags(Tail(v))
    ELSE validate_tags(Tail(v))

\* ImportVideo.id: Field(min_length=11, max_length=11)
ValidImportRequest(import_request) ==
    \A i \in 1..Len(import_request.videos) : Len(import_request.videos[i].id) = 11

\* what FastAPI answers for a body its model refuses
UnprocessableEntity ==
    Response(422, Body("detail", <<"validation error">>, NoUser), <<>>, <<>>, <<>>)

VideoResponse(v, tags) == [id |-> v.id, url |-> v.url, title |-> v.title, tags |-> tags]

NoteResponse(n) ==
    [id |-> n.id, client_note_id |-> n.client_note_id, video_id |-> n.video_id,
     timestamp |-> n.timestamp_sec, content |-> n.content]

\* the rows a response carries
Rows(videos, notes, tags) ==
    [key |-> "rows", videos |-> videos, notes |-> notes, tags |-> tags]

Ok(body) == Response(200, body, <<>>, <<>>, <<>>)

\* ---- routes.py, from where the caller is known.  Each gives the database
\* after the request and the response.
Stats(vc, vu, nc, nu, tc) ==
    [videos_created |-> vc, videos_updated |-> vu, notes_created |-> nc,
     notes_updated |-> nu, tags_created |-> tc]

\* routes.py 46-66.  Once the session has raised, each further item raises
\* inside its try and the handler ends in the except of line 109, which drops
\* stats and errors.
RECURSIVE import_videos(_, _, _)
import_videos(acc, current_user_id, videos) ==
    IF videos = <<>> \/ acc.s.raised THEN acc
    ELSE With(Head(videos), LAMBDA import_video :
         With(extract_video_id(import_video.url), LAMBDA extracted_id :
             IF extracted_id = <<>> \/ extracted_id[1] # import_video.id
             THEN import_videos(
                      [acc EXCEPT !.errors = Append(@,
                           <<"Invalid video ID/URL mismatch for ">> \o import_video.id)],
                      current_user_id, Tail(videos))
             ELSE With(autoflush(acc.s), LAMBDA q :
                  With(crud_get_video(q, current_user_id, import_video.id),
                       LAMBDA existing_video :
                  With(upsert_video_from_import(q, current_user_id, import_video),
                       LAMBDA u :
                      import_videos(
                          IF u.raised
                          THEN [acc EXCEPT !.s = u, !.errors = Append(@,
                                    <<"Error importing video ">> \o import_video.id)]
                          ELSE IF existing_video # {}
                          THEN [acc EXCEPT !.s = u, !.stats.videos_updated = @ + 1]
                          ELSE [acc EXCEPT !.s = u, !.stats.videos_created = @ + 1],
                          current_user_id, Tail(videos)))))))

\* routes.py 75-93
RECURSIVE import_notes(_, _, _, _)
import_notes(acc, current_user_id, video_id, notes) ==
    IF notes = <<>> \/ acc.s.raised THEN acc
    ELSE With(Head(notes), LAMBDA import_note :
         With(autoflush(acc.s), LAMBDA q :
         With(existing_note(q, current_user_id, video_id, PyStr(import_note.id)),
              LAMBDA found :
         With(upsert_note_from_import(q, current_user_id, video_id, import_note),
              LAMBDA u :
             import_notes(
                 IF u.raised
                 THEN [acc EXCEPT !.s = u, !.errors = Append(@,
                           <<"Error importing note ">> \o PyStr(import_note.id)
                             \o <<" for video ">> \o video_id)]
                 ELSE IF found # {}
                 THEN [acc EXCEPT !.s = u, !.stats.notes_updated = @ + 1]
                 ELSE [acc EXCEPT !.s = u, !.stats.notes_created = @ + 1],
                 current_user_id, video_id, Tail(notes))))))

\* routes.py 69-93; notesByVideoId in the order of its keys
RECURSIVE import_note_lists(_, _, _)
import_note_lists(acc, current_user_id, items) ==
    IF items = <<>> \/ acc.s.raised THEN acc
    ELSE With(Head(items).video_id, LAMBDA video_id :
         With(autoflush(acc.s), LAMBDA q :
             IF q.raised THEN [acc EXCEPT !.s = q]
             ELSE IF crud_get_video(q, current_user_id, video_id) = {}
             THEN import_note_lists(
                      [acc EXCEPT !.s = q, !.errors = Append(@,
                           <<"Cannot import notes for non-existent video ">> \o video_id)],
                      current_user_id, Tail(items))
             ELSE import_note_lists(
                      import_notes([acc EXCEPT !.s = q], current_user_id, video_id,
                                   Head(items).notes),
                      current_user_id, Tail(items))))

ImportFailed ==
    Response(500, Body("detail", <<"Import failed: ">>, NoUser), <<>>, <<>>,
             <<"rollback">>)

ImportResponse(success, message, stats, errors) ==
    [key |-> "import", success |-> success, message |-> message, stats |-> stats,
     errors |-> errors]

\* import_data whose failure keeps what its session had written before
\* the exception (no rollback of lines 109-110)
routes_import_data_kept(d, current_user_id, import_request) ==
    With(SessionLocal(d), LAMBDA s :
    With(Cardinality(get_all_tags(s, current_user_id)), LAMBDA existing_tags_count :
    With(import_videos([s |-> s, stats |-> Stats(0, 0, 0, 0, 0), errors |-> <<>>],
                       current_user_id, import_request.videos), LAMBDA videos :
    With(import_note_lists(videos, current_user_id, import_request.notesByVideoId),
         LAMBDA notes :
    With(autoflush(notes.s), LAMBDA q :
    With(Cardinality(get_all_tags(q, current_user_id)), LAMBDA new_tags_count :
    With([notes.stats EXCEPT !.tags_created = new_tags_count - existing_tags_count],
         LAMBDA stats :
    With(notes.errors, LAMBDA errors :
    With(flush(q), LAMBDA f :
        IF f.raised
        THEN [db |-> [videos |-> f.videos, tags |-> f.tags,
                      video_tags |-> f.video_tags, notes |-> f.notes,
                      autoflush |-> d.autoflush],
              out |-> ImportFailed]
        ELSE [db |-> commit(d, q),
              out |-> Ok(ImportResponse(
                         Len(errors) = 0,
                         IF Len(errors) = 0 THEN <<"Import completed successfully">>
                         ELSE <<"Import completed with ">> \o PyStr(Len(errors)) \o <<" errors">>,
                         stats, errors))])))))))))

\* import_data, lines 42-114
routes_import_data(d, current_user_id, import_request) ==
    With(SessionLocal(d), LAMBDA s :
    With(Cardinality(get_all_tags(s, current_user_id)), LAMBDA existing_tags_count :
    With(import_videos([s |-> s, stats |-> Stats(0, 0, 0, 0, 0), errors |-> <<>>],
                       current_user_id, import_request.videos), LAMBDA videos :
    With(import_note_lists(videos, current_user_id, import_request.notesByVideoId),
         LAMBDA notes :
    With(autoflush(notes.s), LAMBDA q :
    With(Cardinality(get_all_tags(q, current_user_id)), LAMBDA new_tags_count :
    With([notes.stats EXCEPT !.tags_created = new_tags_count - existing_tags_count],
         LAMBDA stats :
    With(notes.errors, LAMBDA errors :
        IF flush(q).raised THEN [db |-> d, out |-> ImportFailed]
        ELSE [db |-> commit(d, q),
              out |-> Ok(ImportResponse(
                         Len(errors) = 0,
                         IF Len(errors) = 0 THEN <<"Import completed successfully">>
                         ELSE <<"Import completed with ">> \o PyStr(Len(errors)) \o <<" errors">>,
                         stats, errors))]))))))))

routes_get_videos(d, current_user) ==
    LET s == SessionLocal(d)
    IN  [db |-> d,
         out |-> Ok(Rows({ VideoResponse(v, crud_get_video_tags(s, current_user.id, v.id)) :
                             v \in crud_get_videos(s, current_user.id) }, {}, {}))]

routes_get_video(d, current_user, video_id) ==
    LET s == SessionLocal(d)
        db_video == crud_get_video(s, current_user.id, video_id)
    IN  IF db_video = {} THEN [db |-> d, out |-> HTTPException(404, <<"Video not found">>)]
        ELSE [db |-> d,
              out |-> Ok(Rows({ VideoResponse(v, crud_get_video_tags(s, current_user.id, video_id)) :
                                  v \in db_video },
                              { NoteResponse(n) :
                                  n \in crud_get_video_notes(s, current_user.id, video_id) },
                              {}))]

\* create_video without the check of lines 181-182
routes_create_video_unchecked(d, current_user, video) ==
    LET s == SessionLocal(d)
    IN  With(extract_video_id(video.url), LAMBDA video_id :
        IF video_id = <<>>
        THEN [db |-> d, out |-> HTTPException(400, <<"Invalid YouTube URL">>)]
        ELSE With(crud_create_video(d, s, current_user.id, video, video_id[1]),
                  LAMBDA c :
                 IF c.raised THEN [db |-> d, out |-> InternalServerError]
                 ELSE [db |-> c.db,
                       out |-> Ok(Rows({ VideoResponse(v,
                                            crud_get_video_tags(SessionLocal(c.db),
                                                current_user.id, video_id[1])) :
                                          v \in c.value }, {}, {}))]))
routes_create_video(d, current_user, video) ==
    LET s == SessionLocal(d)
    IN  With(extract_video_id(video.url), LAMBDA video_id :
        IF video_id = <<>>
        THEN [db |-> d, out |-> HTTPException(400, <<"Invalid YouTube URL">>)]
        ELSE IF crud_get_video(s, current_user.id, video_id[1]) # {}
        THEN [db |-> d, out |-> HTTPException(400, <<"Video already exists">>)]
        ELSE With(crud_create_video(d, s, current_user.id, video, video_id[1]),
                  LAMBDA c :
                 IF c.raised THEN [db |-> d, out |-> InternalServerError]
                 ELSE [db |-> c.db,
                       out |-> Ok(Rows({ VideoResponse(v,
                                            crud_get_video_tags(SessionLocal(c.db),
                                                current_user.id, video_id[1])) :
                                          v \in c.value }, {}, {}))]))

routes_update_video(d, current_user, video_id, video_update) ==
    With(crud_update_video(d, SessionLocal(d), current_user.id, video_id, video_update),
         LAMBDA u :
        IF u.raised THEN [db |-> d, out |-> InternalServerError]
        ELSE IF u.value = {}
        THEN [db |-> d, out |-> HTTPException(404, <<"Video not found">>)]
        ELSE [db |-> u.db,
              out |-> Ok(Rows({ VideoResponse(v,
                                   crud_get_video_tags(SessionLocal(u.db),
                                       current_user.id, video_id)) : v \in u.value },
                              {}, {}))])

routes_delete_video(d, current_user, video_id) ==
    With(crud_delete_video(d, SessionLocal(d), current_user.id, video_id), LAMBDA r :
        IF ~r.value THEN [db |-> d, out |-> HTTPException(404, <<"Video not found">>)]
        ELSE [db |-> r.db,
              out |-> Ok(Body("message", <<"Video deleted successfully">>, NoUser))])

routes_get_video_notes(d, current_user, video_id) ==
    LET s == SessionLocal(d)
    IN  IF crud_get_video(s, current_user.id, video_id) = {}
        THEN [db |-> d, out |-> HTTPException(404, <<"Video not found">>)]
        ELSE [db |-> d,
              out |-> Ok(Rows({}, { NoteResponse(n) :
                                      n \in crud_get_video_notes(s, current_user.id, video_id) },
                              {}))]

routes_create_note(d, current_user, video_id, note) ==
    LET s == SessionLocal(d)
    IN  IF crud_get_video(s, current_user.id, video_id) = {}
        THEN [db |-> d, out |-> HTTPException(404, <<"Video not found">>)]
        ELSE With(crud_create_note(d, s, current_user.id, video_id, note), LAMBDA c :
                 IF c.raised THEN [db |-> d, out |-> InternalServerError]
                 ELSE IF c.value = {}
                 THEN [db |-> d, out |-> HTTPException(404, <<"Video not found">>)]
                 ELSE [db |-> c.db,
                       out |-> Ok(Rows({}, { NoteResponse(n) : n \in c.value }, {}))])

routes_delete_note(d, current_user, note_id) ==
    With(crud_delete_note(d, SessionLocal(d), current_user.id, note_id), LAMBDA r :
        IF ~r.value THEN [db |-> d, out |-> HTTPException(404, <<"Note not found">>)]
        ELSE [db |-> r.db,
              out |-> Ok(Body("message", <<"Note deleted successfully">>, NoUser))])

routes_get_tags(d, current_user) ==
    [db |-> d,
     out |-> Ok(Rows({}, {}, { t.name : t \in get_all_tags(SessionLocal(d), current_user.id) }))]

\* list(a_set)[:20]: the set where it has twenty names at most, else twenty
\* of them, which ones being up to the order the interpreter keeps the set in
Sliced(names) ==
    IF Cardinality(names) <= MaxTags THEN {names}
    ELSE { kept \in SUBSET names : Cardinality(kept) = MaxTags }

\* the names of line 315 before the slice: the video's tags as the caller
\* sees them, and the extracted ones
Merged(d, current_user, video_id, body) ==
    crud_get_video_tags(SessionLocal(d), current_user.id, video_id)
        \cup { body.tags[i] : i \in 1..Len(body.tags) }

\* analyze_subtitles.  body.subtitles is <<>> where the key is missing or its
\* value is no string or a blank one; body.tags is what
\* extract_ingredients_from_text makes of the text; kept is what the slice of
\* line 315 keeps, one of Sliced(Merged(...)).
routes_analyze_subtitles(d, current_user, video_id, body, kept) ==
    LET s == SessionLocal(d)
    IN  IF crud_get_video(s, current_user.id, video_id) = {}
        THEN [db |-> d, out |-> HTTPException(404, <<"Video not found">>)]
        ELSE IF body.subtitles = <<>>
        THEN [db |-> d,
              out |-> HTTPException(400,
                  <<"'subtitles' is required and must be a non-empty string">>)]
        ELSE LET tags == body.tags
                 existing == crud_get_video_tags(s, current_user.id, video_id)
                 to_add == SelectSeq(tags, LAMBDA t : t \notin existing)
             IN  With(IF to_add # <<>> THEN add_tags_to_video(s, video_id, to_add) ELSE s,
                      LAMBDA added :
                     IF flush(added).raised
                     THEN [db |-> d,
                           out |-> HTTPException(500, <<"Failed to analyze subtitles: ">>)]
                     ELSE [db |-> IF to_add # <<>> THEN commit(d, added) ELSE d,
                           out |-> Ok(Rows({}, {}, kept))])
\* -------------------------------------------------------------------- state
\* now    the wall clock, in ticks
\* jar    the tokens clients hold: every one was set as a cookie by the server
\* resp   the response on the wire, with the request it answers (op "none":
\*        nothing on the wire).  The next request is taken up once the
\*        response is delivered; a handler runs without interleaving (it
\*        awaits nothing) except google_callback, whose invocation in flight
\*        is cb.
\* cb     the callback invocation in flight, suspended at one of its awaits
\* race   a pair of POST /refresh requests in flight with the same cookie,
\*        and what each was answered
\* db     the committed rows of the database
\* admitted  history: the subjects the tokeninfo endpoint named in the
\*        answers that passed the audience check of a callback
vars == <<cfg, now, jar, resp, cb, race, db, admitted>>

MaxUses == 2

\* The environments the process is started in
Configs ==
    { [JWT_SECRET |-> "server_secret",
       ACCESS_TOKEN_TTL |-> <<"1">>, REFRESH_TOKEN_TTL |-> <<"2">>,
       GOOGLE_CLIENT_ID |-> "client-id", GOOGLE_CLIENT_SECRET |-> "client-secret",
       OAUTH_REDIRECT_URI |-> <<>>,
       FRONTEND_ORIGIN |-> <<"https:", "//", "app.example", "/">>,
       COOKIE_SAMESITE |-> <<"l", "a", "x">>, NODE_ENV |-> "development"] }

\* ---- what the outside world sends
CallbackRequests ==
    [code : {<<>>, <<"code">>}, state : {<<>>, <<"/x">>},
     scheme : {"http"}, host : {"api.example"}]

\* Answers of the provider's token endpoint; status_code 0 stands for a
\* timeout or transport error (httpx raises)
TokenReplies ==
    { [status_code |-> 0, text |-> "", id_token |-> <<>>],
      [status_code |-> 400, text |-> "invalid_grant", id_token |-> <<>>],
      [status_code |-> 503, text |-> "unavailable", id_token |-> <<>>],
      [status_code |-> 200, text |-> "", id_token |-> <<>>],
      [status_code |-> 200, text |-> "", id_token |-> <<"idt">>] }

Subjects ==
    { [sub |-> "u1", email |-> "a@x", name |-> "Ann", picture |-> "pic1"],
      [sub |-> "u2", email |-> "b@x", name |-> None, picture |-> None] }

NoInfo == [aud |-> None, sub |-> None, email |-> None, name |-> None, picture |-> None]

\* Answers of the provider's tokeninfo endpoint
InfoReplies ==
    { [status_code |-> 0, info |-> NoInfo], [status_code |-> 400, info |-> NoInfo] }
    \cup { [status_code |-> 200,
            info |-> [aud |-> a, sub |-> u.sub, email |-> u.email,
                      name |-> u.name, picture |-> u.picture]] :
           a \in {"client-id", "other-client", None}, u \in Subjects }

\* ---- cookie values a client can present, given the tokens it holds
AttackerKey == "attacker_key"

\* the payload signed again under a key that is not the server's
Resign(t) == [t EXCEPT !.sig = HS256(t.payload, AttackerKey)]

\* the payload altered (a later expiry), the signature segment kept
Tamper(t) == [t EXCEPT !.payload.exp = t.payload.exp + MaxTime]

\* the unsigned form: alg none, empty signature segment
AlgNone(t) == [t EXCEPT !.alg = "none", !.sig = NoSig]

Forgeries(t) == {Resign(t), Tamper(t), AlgNone(t)}

Presentable ==
    {<<>>, <<RawToken("")>>, <<RawToken("garbage")>>}
    \cup { <<t>> : t \in jar }
    \cup { <<f>> : f \in UNION { Forgeries(t) : t \in jar } }

\* no cookie, or one the client was given
Held == {<<>>} \cup { <<t>> : t \in jar }

RequestWith(key, c) ==
    [cookies |-> [[access_token |-> <<>>, refresh_token |-> <<>>] EXCEPT ![key] = c]]

\* ---- clock readings of one handler run: n readings, non-decreasing, the
\* first at the time the handler starts, the clock passing at most one tick
\* boundary while the handler runs
ClockReadings(n) ==
    { c \in [1..n -> {now, now + 1}] :
        /\ c[1] = now
        /\ \A i \in 1..(n - 1) : c[i] <= c[i + 1]
        /\ c[n] <= MaxTime }

\* the client stores the cookies of a response (while the model has room)
Keep(new) == IF Cardinality(jar \cup new) <= 2 * MaxPairs THEN jar \cup new ELSE jar

CookieTokens(response) ==
    { response.cookies[i].value : i \in 1..Len(response.cookies) }

IdleCb ==
    [pc |-> "idle", request |-> [code |-> <<>>, state |-> <<>>, scheme |-> "", host |-> ""],
     redirect_uri |-> <<>>, id_token |-> <<>>, calls |-> <<>>]

IdleRace == [cookie |-> <<>>, pc |-> "idle", out |-> <<<<>>, <<>>>>]

\* after: whether the answer the client received last was that of a logout
Sent(op, req, clk, nth, calls, out) ==
    [op |-> op, req |-> req, clk |-> clk, nth |-> nth, calls |-> calls, out |-> out,
     after |-> None]

NoResponse == Response(0, NoBody, <<>>, <<>>, <<>>)

InitWith(C) ==
    /\ cfg \in C
    /\ now = 0
    /\ jar = {}
    /\ resp = Sent("none", <<>>, <<>>, 0, <<>>, NoResponse)
    /\ cb = IdleCb
    /\ race = IdleRace
    /\ db = EmptyDatabase(FALSE)
    /\ admitted = {}

Init == InitWith(Configs)

\* ------------------------------------------------------------------ actions
Min(a, b) == IF a <= b THEN a ELSE b

Quiet == resp.op = "none"

\* time passes
Tick ==
    /\ Quiet
    /\ now < MaxTime
    /\ now' = now + 1
    /\ UNCHANGED <<cfg, jar, resp, cb, race, db, admitted>>

\* GET /api/auth/google/callback arrives: google_callback up to its first await
CallbackStart(request) ==
    /\ Quiet
    /\ cb.pc = "idle"
    /\ LET b == callback_begin(request)
       IN  IF b.failed
           THEN /\ resp' = Sent("callback", <<>>, <<>>, 0, <<>>, b.error)
                /\ cb' = cb
           ELSE /\ cb' = [pc |-> "token", request |-> request,
                          redirect_uri |-> b.redirect_uri, id_token |-> <<>>,
                          calls |-> <<"token">>]
                /\ resp' = resp
    /\ UNCHANGED <<cfg, now, jar, race, db, admitted>>

\* the token step trying the exchange a second time when the first attempt
\* did not succeed
CallbackToken_retry(token_res) ==
    /\ Quiet
    /\ cb.pc = "token"
    /\ IF token_res.status_code # 200 /\ Len(cb.calls) < 2
       THEN /\ cb' = [cb EXCEPT !.calls = Append(@, "token")]
            /\ resp' = resp
       ELSE IF token_res.status_code = 0
       THEN /\ resp' = Sent("callback", <<>>, <<>>, 0, cb.calls, InternalServerError)
            /\ cb' = IdleCb
       ELSE LET r == callback_on_token(token_res)
            IN  IF r.failed
                THEN /\ resp' = Sent("callback", <<>>, <<>>, 0, cb.calls, r.error)
                     /\ cb' = IdleCb
                ELSE /\ cb' = [cb EXCEPT !.pc = "info", !.id_token = r.id_token,
                                         !.calls = Append(@, "tokeninfo")]
                     /\ resp' = resp
    /\ UNCHANGED <<cfg, now, jar, race, db, admitted>>
\* the token endpoint answers (or the call fails): up to the second await
CallbackToken(token_res) ==
    /\ Quiet
    /\ cb.pc = "token"
    /\ IF token_res.status_code = 0
       THEN /\ resp' = Sent("callback", <<>>, <<>>, 0, cb.calls, InternalServerError)
            /\ cb' = IdleCb
       ELSE LET r == callback_on_token(token_res)
            IN  IF r.failed
                THEN /\ resp' = Sent("callback", <<>>, <<>>, 0, cb.calls, r.error)
                     /\ cb' = IdleCb
                ELSE /\ cb' = [cb EXCEPT !.pc = "info", !.id_token = r.id_token,
                                         !.calls = Append(@, "tokeninfo")]
                     /\ resp' = resp
    /\ UNCHANGED <<cfg, now, jar, race, db, admitted>>

\* tokeninfo answers (or the call fails): the rest of google_callback
CallbackInfo(info_res, clk) ==
    /\ Quiet
    /\ cb.pc = "info"
    /\ LET out == IF info_res.status_code = 0 THEN InternalServerError
                  ELSE callback_on_info(cb.request, info_res, clk)
       IN  /\ resp' = Sent("callback", <<>>, clk, 0, cb.calls, out)
           /\ now' = IF out.status = 302 THEN clk[3] ELSE now
    /\ admitted' = IF info_res.status_code = 200
                       /\ info_res.info.aud = cfg.GOOGLE_CLIENT_ID
                    THEN admitted \cup {info_res.info.sub} ELSE admitted
    /\ cb' = IdleCb
    /\ UNCHANGED <<cfg, jar, race, db>>

\* GET /api/auth/me with access_token cookie c
Me(c) ==
    /\ Quiet
    /\ resp' = [Sent("me", c, <<now>>, 0, <<>>, me(RequestWith("access_token", c), now))
                 EXCEPT !.after = resp.after]
    /\ UNCHANGED <<cfg, now, jar, cb, race, db, admitted>>

\* GET /api/tags with access_token cookie c
GetTags(c) ==
    /\ Quiet
    /\ resp' = Sent("get_tags", c, <<now>>, 0, <<>>,
                    get_tags(RequestWith("access_token", c), now))
    /\ UNCHANGED <<cfg, now, jar, cb, race, db, admitted>>

\* POST /api/import with access_token cookie c
Import(c) ==
    /\ Quiet
    /\ resp' = Sent("import", c, <<now>>, 0, <<>>,
                    import_data(RequestWith("access_token", c), now))
    /\ UNCHANGED <<cfg, now, jar, cb, race, db, admitted>>

\* POST /api/auth/refresh with refresh_token cookie c.  nth counts the
\* successful refreshes in a row that presented this same cookie.
Refresh(c, clk) ==
    /\ Quiet
    /\ LET out == refresh(RequestWith("refresh_token", c), clk)
           nth == IF out.status # 200 THEN 0
                  ELSE IF resp.req = c THEN Min(resp.nth + 1, MaxUses) ELSE 1
       IN  /\ resp' = Sent("refresh", c, clk, nth, <<>>, out)
           /\ now' = IF out.status = 200 THEN clk[4] ELSE now
    /\ UNCHANGED <<cfg, jar, cb, race, db, admitted>>

\* POST /api/auth/logout; the request carries cookie c, which logout never reads
Logout(c) ==
    /\ Quiet
    /\ resp' = Sent("logout", c, <<>>, 0, <<>>, logout)
    /\ UNCHANGED <<cfg, now, jar, cb, race, db, admitted>>

\* the response reaches the client, which stores the tokens set as cookies;
\* what stays known is which refresh cookie was last used with success, or
\* that the answer was that of a logout
Deliver ==
    /\ ~Quiet
    /\ jar' = Keep({ t \in CookieTokens(resp.out) : t.raw = "jwt" })
    /\ resp' = IF resp.op = "refresh" /\ resp.out.status = 200
               THEN Sent("none", resp.req, <<>>, resp.nth, <<>>, NoResponse)
               ELSE IF resp.op = "logout"
               THEN [Sent("none", <<>>, <<>>, 0, <<>>, NoResponse) EXCEPT !.after = "logout"]
               ELSE Sent("none", <<>>, <<>>, 0, <<>>, NoResponse)
    /\ UNCHANGED <<cfg, now, cb, race, db, admitted>>

Next ==
    \/ Tick
    \/ \E request \in CallbackRequests : CallbackStart(request)
    \/ \E token_res \in TokenReplies : CallbackToken(token_res)
    \/ \E info_res \in InfoReplies, clk \in ClockReadings(3) : CallbackInfo(info_res, clk)
    \/ \E c \in Presentable : Me(c)
    \/ \E c \in Presentable : GetTags(c)
    \/ \E c \in Presentable : Import(c)
    \/ \E c \in Presentable, clk \in ClockReadings(4) : Refresh(c, clk)
    \/ \E c \in Held : Logout(c)
    \/ Deliver

Spec == Init /\ [][Next]_vars

\* ----------------------------------------------- two refreshes in one race
\* Two POST /refresh requests are sent with the same cookie before either is
\* answered; the server takes them up in either order, any time apart.  Of
\* each answer the pair of requests keeps: the status; whether the cookie was
\* an unexpired refresh token of the server when the handler verified it;
\* and whether the answer sets an access and a refresh cookie issued by this
\* very handler run for the identity of the presented token.
OwnPair(c, out, clk) ==
    /\ Len(out.cookies) = 2
    /\ out.cookies[1].key = "access_token" /\ out.cookies[2].key = "refresh_token"
    /\ out.cookies[1].value.payload.type = None
    /\ out.cookies[2].value.payload.type = "refresh"
    /\ \A i \in 1..2 :
          LET t == out.cookies[i].value
          IN  /\ t.raw = "jwt" /\ t.alg = "HS256"
              /\ t.sig = HS256(t.payload, cfg.JWT_SECRET)
              /\ t.payload.iat = clk[2] \div TicksPerSec
              /\ t.payload.sub = c[1].payload.sub

RaceStart(c) ==
    /\ Quiet
    /\ race.pc = "idle"
    /\ race' = [cookie |-> c, pc |-> "sent", out |-> <<<<>>, <<>>>>]
    /\ UNCHANGED <<cfg, now, jar, resp, cb, db, admitted>>

RaceHandle(i, clk) ==
    /\ Quiet
    /\ race.pc = "sent"
    /\ race.out[i] = <<>>
    /\ LET out == refresh(RequestWith("refresh_token", race.cookie), clk)
           live == /\ race.cookie[1] \in jar
                   /\ race.cookie[1].payload.type = "refresh"
                   /\ clk[1] < race.cookie[1].payload.exp * TicksPerSec
       IN  /\ race' = [race EXCEPT
                          !.out[i] = <<[status |-> out.status, live |-> live,
                                        pair |-> OwnPair(race.cookie, out, clk)]>>]
           /\ now' = IF out.status = 200 THEN clk[4] ELSE now
    /\ UNCHANGED <<cfg, jar, resp, cb, db, admitted>>

\* both answers have reached their clients
RaceEnd ==
    /\ race.pc = "sent"
    /\ race.out[1] # <<>> /\ race.out[2] # <<>>
    /\ race' = IdleRace
    /\ UNCHANGED <<cfg, now, jar, resp, cb, db, admitted>>

NextRace ==
    \/ Tick
    \/ \E request \in CallbackRequests : CallbackStart(request)
    \/ \E token_res \in TokenReplies : CallbackToken(token_res)
    \/ \E info_res \in InfoReplies, clk \in ClockReadings(3) : CallbackInfo(info_res, clk)
    \/ Deliver
    \/ \E t \in jar : RaceStart(<<t>>)
    \/ \E i \in 1..2, clk \in ClockReadings(4) : RaceHandle(i, clk)
    \/ RaceEnd

SpecRace == Init /\ [][NextRace]_vars

\* =================================================================== claims
\* A token the server signed, as a client holds it
ServerSigned(t) ==
    t.raw = "jwt" /\ t.alg = "HS256" /\ t.sig = HS256(t.payload, cfg.JWT_SECRET)

\* exp, in ticks
ExpTicks(t) == t.payload.exp * TicksPerSec

Identities ==
    [id : {"u1", "u2"}, email : {None, "a@x"}, name : {None, "Ann"},
     picture : {None}]

\* C1: Round-trip.  For every identity, both tokens _issue_tokens produces
\* (at the current time) verify at every later time before their exp claim,
\* and the claims returned carry the identity's sub, email, name and picture;
\* the same holds of every token a client holds.
C1_RoundTrip ==
    /\ \A u \in Identities :
         LET tk == _issue_tokens(u, now)
         IN  \A tok \in {tk.access, tk.refresh} : \A t \in now..MaxTime :
                t < ExpTicks(tok) =>
                    /\ _verify_token(tok, t) # <<>>
                    /\ UserOf(_verify_token(tok, t)[1]) = u
    /\ \A tok \in jar :
         now < ExpTicks(tok) => _verify_token(tok, now) = <<tok.payload>>

\* C1 witness: a client holds a refresh token issued in an earlier second
\* that still verifies, and a callback has just answered with a fresh pair.
C1_Witness ==
    /\ resp.op = "callback" /\ resp.out.status = 302
    /\ \E tok \in jar :
         /\ tok.payload.type = "refresh"
         /\ tok.payload.iat * TicksPerSec + TicksPerSec <= now
         /\ _verify_token(tok, now) = <<tok.payload>>

\* C2: Expiry.  A correctly signed token whose exp <= now (the boundary
\* included) fails verification, and jwt.decode fails with the expiry error,
\* which differs from the errors of an undecodable and of a wrongly signed
\* token.
C2_Expiry ==
    \A tok \in jar :
        (ServerSigned(tok) /\ ExpTicks(tok) <= now) =>
            /\ _verify_token(tok, now) = <<>>
            /\ jwt_decode(tok, JWT_SECRET, {"HS256"}, now).err = "ExpiredSignatureError"
            /\ jwt_decode(RawToken("garbage"), JWT_SECRET, {"HS256"}, now).err
                   \notin {"ExpiredSignatureError", None}
            /\ jwt_decode(Resign(tok), JWT_SECRET, {"HS256"}, now).err
                   \notin {"ExpiredSignatureError", None}

\* C2 witness: GET /me was answered for a held token at the very tick its exp
\* is reached.
C2_Witness ==
    /\ resp.op = "me" /\ resp.req # <<>>
    /\ resp.req[1] \in jar
    /\ ExpTicks(resp.req[1]) = resp.clk[1]
    /\ resp.out.status = 401

IdentityOps == {"me", "get_tags", "import"}

\* C3: Tamper resistance.  No endpoint accepts a cookie whose signature does
\* not verify under the server's secret.
C3_TamperResistance ==
    (resp.op \in IdentityOps \cup {"refresh"} /\ resp.out.status = 200) =>
        (resp.req # <<>> /\ ServerSigned(resp.req[1]))

\* C3 witness: a refresh was refused for a token re-signed under another key.
C3_Witness ==
    /\ resp.op = "refresh" /\ resp.req # <<>>
    /\ resp.req[1].raw = "jwt"
    /\ resp.req[1].sig.key = AttackerKey
    /\ resp.req[1].payload.type = "refresh"
    /\ resp.clk[1] < ExpTicks(resp.req[1])
    /\ resp.out.status = 401

\* C4: Uniform rejection.  Every refusal of GET /me is the same response: 401
\* with the body {"message": "Unauthorized"}, no cookie, no header that
\* depends on the cause.
C4_UniformRejection ==
    (resp.op = "me" /\ resp.out.status # 200) =>
        resp.out = Response(401, Body("message", <<"Unauthorized">>, NoUser),
                            <<>>, <<>>, <<>>)

\* C4 witness: GET /me refused an expired, correctly signed token (the other
\* causes are refused from the first state on).
C4_Witness ==
    /\ resp.op = "me" /\ resp.req # <<>>
    /\ ServerSigned(resp.req[1])
    /\ ExpTicks(resp.req[1]) <= resp.clk[1]
    /\ resp.out.status = 401

\* C5: Every identity-resolving endpoint answers a request whose access_token
\* cookie is absent or fails verification with 401, and makes no database
\* call for it.
C5_Only401 ==
    (resp.op \in {"get_tags", "import"}
        /\ (~TruthyToken(resp.req) \/ _verify_token(resp.req[1], resp.clk[1]) = <<>>)) =>
        (resp.out.status = 401 /\ resp.out.dbcalls = <<>>)

\* C6: POST /refresh succeeds only for a cookie that verifies and whose type
\* is refresh; a valid access token in the refresh_token cookie gets 401.
C6_RefreshNeedsRefreshKind ==
    resp.op = "refresh" =>
        /\ resp.out.status = 200 =>
              /\ resp.req # <<>>
              /\ ServerSigned(resp.req[1])
              /\ resp.clk[1] < ExpTicks(resp.req[1])
              /\ resp.req[1].payload.type = "refresh"
        /\ (resp.req # <<>> /\ resp.req[1].payload.type # "refresh") =>
              resp.out.status = 401

\* C6 witness: an unexpired access token of the server was presented as the
\* refresh_token cookie.
C6_Witness ==
    /\ resp.op = "refresh" /\ resp.req # <<>>
    /\ resp.req[1] \in jar
    /\ resp.req[1].payload.type = None
    /\ resp.clk[1] < ExpTicks(resp.req[1])
    /\ resp.out.status = 401

\* C7: A refresh token presented as the access_token cookie is never
\* accepted as proof of identity.
C7_RefreshTokenIsNoAccessToken ==
    (resp.op \in IdentityOps /\ resp.req # <<>>
        /\ resp.req[1].payload.type = "refresh") =>
        resp.out.status # 200

\* C8: Refresh preserves identity.  Both tokens a successful refresh sets
\* carry the sub, email, name and picture of the presented token; and every
\* token a client holds carries an identity a callback built.
LoginIdentities ==
    { [id |-> u.sub, email |-> u.email,
       name |-> IF u.name = None THEN u.email ELSE u.name, picture |-> u.picture] :
      u \in Subjects }

C8_RefreshPreservesIdentity ==
    /\ (resp.op = "refresh" /\ resp.out.status = 200) =>
          /\ Len(resp.out.cookies) = 2
          /\ \A i \in 1..2 :
                UserOf(resp.out.cookies[i].value.payload) = UserOf(resp.req[1].payload)
    /\ \A tok \in jar : UserOf(tok.payload) \in LoginIdentities

\* C8 witness: a refresh succeeded for a token that is itself later than an
\* older refresh token of the same identity a client still holds.
C8_Witness ==
    /\ resp.op = "refresh" /\ resp.out.status = 200
    /\ \E old \in jar :
         /\ old.payload.type = "refresh"
         /\ UserOf(old.payload) = UserOf(resp.req[1].payload)
         /\ old.payload.iat < resp.req[1].payload.iat
         /\ resp.req[1].payload.iat < resp.out.cookies[2].value.payload.iat

\* C9: Rotation does not invalidate.  However often refresh token R was
\* presented with success, presenting R succeeds exactly while R's exp is
\* not reached: at every time before it, and no longer from it on.
C9_OldRefreshStaysValid ==
    /\ (resp.op = "refresh" /\ resp.req # <<>> /\ resp.req[1] \in jar
          /\ resp.req[1].payload.type = "refresh") =>
          (resp.out.status = 200 <=> resp.clk[1] < ExpTicks(resp.req[1]))
    /\ \A R \in jar :
          R.payload.type = "refresh" =>
              (refresh(RequestWith("refresh_token", <<R>>),
                       <<now, now, now, now>>).status = 200
                  <=> now < ExpTicks(R))

\* C9 witness: R was presented with success MaxUses times in a row.
C9_Witness ==
    /\ resp.op = "refresh" /\ resp.out.status = 200
    /\ resp.nth = MaxUses

\* Each answered request of a race on an unexpired refresh token got 200 and
\* a pair of its own.
C10_RaceInv ==
    \A i \in 1..2 :
        (race.out[i] # <<>> /\ race.out[i][1].live) =>
            (race.out[i][1].status = 200 /\ race.out[i][1].pair)

\* C10: Two refreshes racing on the same refresh token both succeed, in
\* either order and any time apart, as long as each is verified before the
\* token's exp, and each gets its own new pair; handling one of them changes
\* nothing but its own answer and the clock: not the configuration, not the
\* other request's answer, not a callback in flight.
C10_RacingRefreshes ==
    /\ []C10_RaceInv
    /\ [][(race.pc = "sent" /\ race'.pc = "sent" /\ race' # race) =>
            /\ UNCHANGED <<cfg, jar, resp, cb, db, admitted>>
            /\ race'.cookie = race.cookie
            /\ \A i \in 1..2 : race.out[i] # <<>> => race'.out[i] = race.out[i]]_vars

\* C10 witness: both requests of a race were answered 200 with a pair of
\* their own, the second after the first.
C10_Witness ==
    /\ race.pc = "sent"
    /\ \A i \in 1..2 :
          /\ race.out[i] # <<>>
          /\ race.out[i][1].live
          /\ race.out[i][1].status = 200
          /\ race.out[i][1].pair

\* -------------------------------------------------------- refresh lifetimes
\* a refresh answered for a refresh token the client holds, at least one full
\* second after the second in which that token was issued
RefreshedLater ==
    /\ resp.op = "refresh" /\ resp.req # <<>>
    /\ resp.req[1] \in jar
    /\ resp.req[1].payload.type = "refresh"
    /\ resp.clk[1] >= resp.req[1].payload.iat * TicksPerSec + TicksPerSec

\* the access tokens issued in the same pair as refresh token R
PairedAccess(R) ==
    { a \in jar : /\ a.payload.type = None
                  /\ a.payload.sub = R.payload.sub
                  /\ a.payload.iat = R.payload.iat }

\* the moment the browser drops cookie i of the answer: the time it was
\* written plus its Max-Age
CookieExpiry(i) == resp.clk[2 + i] + resp.out.cookies[i].max_age * TicksPerSec

\* the answer is 200 and both cookies outlive the tokens of the original pair
ExtendsLifetimes ==
    /\ resp.out.status = 200
    /\ Len(resp.out.cookies) = 2
    /\ \A a \in PairedAccess(resp.req[1]) : CookieExpiry(1) > ExpTicks(a)
    /\ CookieExpiry(2) > ExpTicks(resp.req[1])

\* C11 as stated: a refresh made one second or more after the issue time of
\* the presented refresh token answers 200 with cookies expiring strictly
\* later than the original tokens, whenever it is made.
C11_AnyLaterRefreshExtends == RefreshedLater => ExtendsLifetimes

\* C11: Refresh extends lifetimes.  A refresh made one second or more after
\* the issue time of the presented refresh token, and before that token's
\* exp, answers 200 and sets cookies whose expiries (time written + Max-Age)
\* are strictly later than the exp of the original access and refresh tokens.
C11_RefreshExtendsLifetimes ==
    (RefreshedLater /\ resp.clk[1] < ExpTicks(resp.req[1])) => ExtendsLifetimes

\* C11 witness: such a refresh was answered while the clock moved between
\* issuing the pair and writing the cookies, and the original access token is
\* still held.
C11_Witness ==
    /\ RefreshedLater /\ resp.clk[1] < ExpTicks(resp.req[1])
    /\ resp.out.status = 200
    /\ PairedAccess(resp.req[1]) # {}
    /\ resp.clk[3] > resp.clk[2]

\* ------------------------------------------------------------------- logout
\* C12: Logout does not revoke.  After POST /logout was answered, a GET /me
\* that still carries an access token issued before the logout returns 200
\* with the identity of the token, at every time before the token's exp.
C12_LogoutDoesNotRevoke ==
    /\ (resp.op = "me" /\ resp.after = "logout" /\ resp.req # <<>>
          /\ resp.req[1] \in jar /\ resp.req[1].payload.type = None
          /\ resp.clk[1] < ExpTicks(resp.req[1])) =>
          resp.out = Response(200, Body("user", <<>>, UserOf(resp.req[1].payload)),
                              <<>>, <<>>, <<>>)
    /\ (Quiet /\ resp.after = "logout") =>
          \A tok \in jar :
              (tok.payload.type = None /\ now < ExpTicks(tok)) =>
                  me(RequestWith("access_token", <<tok>>), now).body.user
                      = UserOf(tok.payload)

\* C12 witness: the last answer the client got was that of a logout, time
\* passed, and GET /me with the old access token was answered 200.
C12_Witness ==
    /\ resp.op = "me" /\ resp.after = "logout" /\ resp.req # <<>>
    /\ resp.req[1] \in jar /\ resp.req[1].payload.type = None
    /\ resp.clk[1] > resp.req[1].payload.iat * TicksPerSec
    /\ resp.out.status = 200

\* ------------------------------------------- the service in other environments
\* COOKIE_SAMESITE as the environment may give it: a recognised mode, one in
\* mixed case, one the code does not know
SameSiteSettings ==
    { <<"l", "a", "x">>, <<"N", "o", "n", "e">>, <<"S", "t", "r", "i", "c", "t">>,
      <<"b", "o", "g", "u", "s">> }

\* environments differing in cookie policy, and environments in which the
\* Google credentials are unset or empty
Environments ==
    { [c EXCEPT !.COOKIE_SAMESITE = s, !.NODE_ENV = e] :
        c \in Configs, s \in SameSiteSettings, e \in {"development", "production"} }
    \cup { [c EXCEPT !.GOOGLE_CLIENT_ID = i, !.GOOGLE_CLIENT_SECRET = k] :
             c \in Configs, i \in {"client-id", None, ""}, k \in {"client-secret", None} }

InitEnv == InitWith(Environments)

\* logins, refreshes with a held cookie, logouts
NextEnv ==
    \/ Tick
    \/ \E request \in CallbackRequests : CallbackStart(request)
    \/ \E token_res \in TokenReplies : CallbackToken(token_res)
    \/ \E info_res \in InfoReplies, clk \in ClockReadings(3) : CallbackInfo(info_res, clk)
    \/ \E c \in Held, clk \in ClockReadings(4) : Refresh(c, clk)
    \/ \E c \in Held : Logout(c)
    \/ Deliver

SpecEnv == InitEnv /\ [][NextEnv]_vars

\* a Set-Cookie that makes the browser drop the cookie named key at Path=/
IsDeletion(cookie, key) ==
    /\ cookie.key = key
    /\ cookie.path = "/"
    /\ cookie.value = RawToken("")
    /\ cookie.max_age = 0

\* C13: POST /logout always answers 200 {ok: true} and emits a deletion of
\* the access_token and of the refresh_token cookie with Path=/, in every
\* environment (every SameSite setting) and whatever cookie the request
\* carried.
C13_LogoutAlwaysClears ==
    resp.op = "logout" =>
        /\ resp.out.status = 200
        /\ resp.out.body = Body("ok", <<"true">>, NoUser)
        /\ Len(resp.out.cookies) = 2
        /\ IsDeletion(resp.out.cookies[1], "access_token")
        /\ IsDeletion(resp.out.cookies[2], "refresh_token")

\* C13 witness: a logout was answered where cookies are issued with
\* SameSite=none, for a request carrying a token past its exp.
C13_Witness ==
    /\ resp.op = "logout" /\ resp.out.status = 200
    /\ COOKIE_SAMESITE = SameSiteNone
    /\ resp.req # <<>>
    /\ ExpTicks(resp.req[1]) <= now

\* ------------------------------------------------------------ cookie policy
\* the answer on the wire carries the two cookies _set_auth_cookies wrote
CookiesWritten ==
    /\ resp.op \in {"callback", "refresh"}
    /\ Len(resp.out.cookies) = 2
    /\ resp.out.cookies[1].value.raw = "jwt"

\* C14: Cookie Secure matrix.  In every environment both cookies written by
\* _set_auth_cookies have Secure when the SameSite mode is none, whatever the
\* deployment mode, and otherwise have Secure exactly when NODE_ENV is
\* production.
C14_SecureMatrix ==
    CookiesWritten =>
        \A i \in 1..2 :
            LET cookie == resp.out.cookies[i]
            IN  /\ Lower(cfg.COOKIE_SAMESITE) = SameSiteNone => cookie.samesite = SameSiteNone
                /\ cookie.samesite = SameSiteNone => cookie.secure
                /\ cookie.samesite # SameSiteNone =>
                       (cookie.secure <=> cfg.NODE_ENV = "production")

\* C14 witness: a refresh wrote SameSite=none cookies with Secure outside
\* production.
C14_Witness ==
    /\ CookiesWritten /\ resp.op = "refresh"
    /\ cfg.NODE_ENV = "development"
    /\ resp.out.cookies[1].samesite = SameSiteNone
    /\ resp.out.cookies[1].secure /\ resp.out.cookies[2].secure

\* C16: For every value of the SameSite configuration string, unrecognised
\* and mixed-case ones included, both cookies set on login and on refresh
\* have HttpOnly, Path=/ and one and the same SameSite attribute, which is
\* lax, none or strict.
C16_CookieAttributes ==
    CookiesWritten =>
        /\ \A i \in 1..2 :
              /\ resp.out.cookies[i].httponly
              /\ resp.out.cookies[i].path = "/"
              /\ resp.out.cookies[i].samesite \in {Lax, SameSiteNone, Strict}
        /\ resp.out.cookies[1].samesite = resp.out.cookies[2].samesite
        /\ resp.out.cookies[1].key = "access_token"
        /\ resp.out.cookies[2].key = "refresh_token"

\* C16 witness: a login wrote its cookies where COOKIE_SAMESITE holds a value
\* the code does not know.
C16_Witness ==
    /\ CookiesWritten /\ resp.op = "callback"
    /\ Lower(cfg.COOKIE_SAMESITE) \notin {Lax, SameSiteNone, Strict}
    /\ resp.out.cookies[1].samesite = Lax

\* ------------------------------------------------- the configured lifetimes
MaxTtlLen == 3

TtlAlphabet == {"1", "5", "m", "h", "d", "-", " ", "_", "."}

\* settings of ACCESS_TOKEN_TTL: every short text over the alphabet, and
\* some longer ones
TtlSettings ==
    UNION { [1..n -> TtlAlphabet] : n \in 0..MaxTtlLen }
    \cup { <<"3", "6", "0", "0">>, <<"7", "d">>, <<"1", "5", "M">>, <<"1", ".", "5", "h">>,
           <<"g", "a", "r", "b", "a", "g", "e">>,
           <<"1", "0", "0", "0", "0", "0", "0", "0", "0", "0", "d">> }

InitTtl ==
    InitWith({ [c EXCEPT !.ACCESS_TOKEN_TTL = ttl] : c \in Configs, ttl \in TtlSettings })

\* the first login of a client that holds nothing yet
NextTtl ==
    \/ jar = {} /\ \E request \in CallbackRequests :
                      request.code # <<>> /\ request.state = <<>> /\ CallbackStart(request)
    \/ \E token_res \in TokenReplies :
          token_res.id_token # <<>> /\ CallbackToken(token_res)
    \/ \E info_res \in InfoReplies, clk \in ClockReadings(3) :
          info_res.info.aud = GOOGLE_CLIENT_ID /\ info_res.info.sub = "u1"
             /\ CallbackInfo(info_res, clk)
    \/ Deliver

SpecTtl == InitTtl /\ [][NextTtl]_vars

\* ------------------------------------------------------------------ Max-Age
\* the utcnow() reading at which the pair on the wire was issued, and the
\* one at which its cookie i was written
IssuedAt == IF resp.op = "callback" THEN resp.clk[1] ELSE resp.clk[2]

WrittenAt(i) == IF resp.op = "callback" THEN resp.clk[1 + i] ELSE resp.clk[2 + i]

\* expires_at of the token in cookie i, as _issue_tokens returned it
ExpiresAt(i) ==
    LET tk == _issue_tokens(UserOf(resp.out.cookies[i].value.payload), IssuedAt)
    IN  IF i = 1 THEN tk.access_exp ELSE tk.refresh_exp

\* whole seconds of a span of ticks, rounded down
FloorSeconds(ticks) == ticks \div TicksPerSec

\* C15: The Max-Age of each cookie written by _set_auth_cookies is the floor
\* of (expires_at - now) in seconds and never negative: for a token already
\* expired when its cookie is written, Max-Age is 0.
C15_MaxAgeFloorNeverNegative ==
    CookiesWritten =>
        \A i \in 1..2 :
            LET left == FloorSeconds(ExpiresAt(i) - WrittenAt(i))
            IN  resp.out.cookies[i].max_age = IF left < 0 THEN 0 ELSE left

\* --------------------------------------------------------------- TTL parsing
\* The reference of the TTL format.  An <int> is what int() reads as one:
\* blanks around it, an optional sign, decimal digits with single
\* underscores between them.
Blank(s, i) == s[i] = " "

Core(s) ==
    LET solid == { i \in 1..Len(s) : ~Blank(s, i) }
    IN  IF solid = {} THEN <<>>
        ELSE SubSeq(s, CHOOSE i \in solid : \A j \in solid : i <= j,
                       CHOOSE i \in solid : \A j \in solid : i >= j)

Unsigned(s) == IF s # <<>> /\ s[1] \in {"+", "-"} THEN Tail(s) ELSE s

IsIntText(s) ==
    LET body == Unsigned(Core(s))
    IN  /\ body # <<>>
        /\ \A i \in 1..Len(body) : IsDigit(body[i]) \/ body[i] = "_"
        /\ body[1] # "_" /\ body[Len(body)] # "_"
        /\ \A i \in 1..(Len(body) - 1) : ~(body[i] = "_" /\ body[i + 1] = "_")

RECURSIVE Decimal(_)
Decimal(ds) == IF ds = <<>> THEN 0 ELSE 10 * Decimal(ButLast(ds)) + DigitVal(ds[Len(ds)])

IntOf(s) ==
    LET magnitude == Decimal(SelectSeq(Unsigned(Core(s)), IsDigit))
    IN  IF Core(s)[1] = "-" THEN 0 - magnitude ELSE magnitude

\* the unit a TTL text names and the text of its count
UnitOf(s) ==
    IF s # <<>> /\ s[Len(s)] = "m" THEN 60
    ELSE IF s # <<>> /\ s[Len(s)] = "h" THEN 3600
    ELSE IF s # <<>> /\ s[Len(s)] = "d" THEN 86400
    ELSE 1

CountText(s) == IF UnitOf(s) = 1 THEN s ELSE SubSeq(s, 1, Len(s) - 1)

\* seconds = count * unit, said without forming the product
IsProduct(seconds, count, unit) == seconds % unit = 0 /\ seconds \div unit = count

\* a count of days no timedelta can hold
BeyondTimedelta(s) ==
    /\ UnitOf(s) = 86400 /\ IsIntText(CountText(s))
    /\ (IntOf(CountText(s)) > 999999999 \/ IntOf(CountText(s)) < 0 - 999999999)

\* C17 as stated: "<int>m" gives int*60 seconds, "<int>h" int*3600, "<int>d"
\* int*86400, a bare integer that many seconds, every other string 900.
C17_EveryIntTimesUnit ==
    LET s == cfg.ACCESS_TOKEN_TTL
    IN  IF IsIntText(CountText(s))
        THEN IsProduct(_parse_ttl(s), IntOf(CountText(s)), UnitOf(s))
        ELSE _parse_ttl(s) = 900

\* C17: TTL parsing is total and matches the reference wherever the duration
\* fits a timedelta (at most 999999999 days either way): "<int>m" gives
\* int*60 seconds, "<int>h" int*3600, "<int>d" int*86400, a bare integer that
\* many seconds; every other string, and every duration beyond that range,
\* gives 900 seconds.  The lifetime of the access token issued is that many
\* seconds.
C17_TtlParsing ==
    LET s == cfg.ACCESS_TOKEN_TTL
    IN  /\ IF IsIntText(CountText(s)) /\ ~BeyondTimedelta(s)
           THEN IsProduct(_parse_ttl(s), IntOf(CountText(s)), UnitOf(s))
           ELSE _parse_ttl(s) = 900
        /\ (CookiesWritten /\ resp.op = "callback") =>
              ExpiresAt(1) - IssuedAt = _parse_ttl(s) * TicksPerSec

\* C17 witness: a login issued its pair where ACCESS_TOKEN_TTL is a signed
\* count with a unit and blanks, and the access token's lifetime follows it.
C17_Witness ==
    /\ CookiesWritten /\ resp.op = "callback"
    /\ cfg.ACCESS_TOKEN_TTL = <<" ", "5", "m">>
    /\ resp.out.cookies[1].value.payload.exp
          - resp.out.cookies[1].value.payload.iat = 300

\* ------------------------------------------------------ callback validation
MissingCode == HTTPException(400, <<"Missing authorization code">>)

MissingCredentials == HTTPException(500, <<"Missing Google OAuth credentials">>)

CredentialsConfigured ==
    cfg.GOOGLE_CLIENT_ID \notin {None, ""} /\ cfg.GOOGLE_CLIENT_SECRET \notin {None, ""}

\* C18: Callback input validation.  A callback without a code ends in
\* MissingCode (400), also where the credentials are missing too; a callback
\* with a code but without a configured client id or client secret ends in
\* MissingCredentials (500); neither sends a request to the identity
\* provider.
C18_CallbackInputValidation ==
    /\ \A request \in CallbackRequests :
          LET b == callback_begin(request)
          IN  /\ request.code = <<>> => (b.failed /\ b.error = MissingCode)
              /\ (request.code # <<>> /\ ~CredentialsConfigured) =>
                     (b.failed /\ b.error = MissingCredentials)
    /\ (resp.op = "callback" /\ resp.out \in {MissingCode, MissingCredentials}) =>
          (resp.calls = <<>> /\ cb.pc = "idle")
    /\ cb.pc # "idle" => (cb.request.code # <<>> /\ CredentialsConfigured)
    /\ (resp.op = "callback" /\ resp.calls # <<>>) => CredentialsConfigured

\* C18 witness: a callback with a code was answered 500 where the client
\* secret is not configured, before any provider call.
C18_Witness ==
    /\ resp.op = "callback" /\ resp.out = MissingCredentials
    /\ resp.calls = <<>>
    /\ cfg.GOOGLE_CLIENT_ID = "client-id" /\ cfg.GOOGLE_CLIENT_SECRET = None

MissingIdentityToken == HTTPException(400, <<"Missing id_token in response">>)

\* the message of an answer contains this text
Contains(response, text) ==
    \E i \in 1..Len(response.body.text) : response.body.text[i] = text

\* the callback on the wire ended at the token exchange
ExchangeRefused ==
    /\ resp.op = "callback" /\ resp.out.status = 400
    /\ \/ resp.out = MissingIdentityToken
       \/ Contains(resp.out, "Token exchange failed: ")

\* C19: When the token endpoint answers with a status other than 200 the
\* callback ends with 400 and a message containing the provider's response
\* body; when it answers 200 without an id_token the callback ends with 400
\* MissingIdentityToken; in both cases tokeninfo is never called.
C19_TokenExchangeFailures ==
    /\ \A token_res \in TokenReplies :
          LET r == callback_on_token(token_res)
          IN  /\ token_res.status_code \notin {0, 200} =>
                    /\ r.failed /\ r.error.status = 400
                    /\ r.error.body.key = "detail"
                    /\ Contains(r.error, token_res.text)
              /\ (token_res.status_code = 200 /\ token_res.id_token = <<>>) =>
                    (r.failed /\ r.error = MissingIdentityToken)
    /\ ExchangeRefused => (resp.calls = <<"token">> /\ cb.pc = "idle")
    /\ cb.pc = "info" => cb.id_token # <<>>

\* C19 witness: the provider answered 503 and the callback ended with 400
\* carrying the provider's body, after the one call to the token endpoint.
C19_Witness ==
    /\ ExchangeRefused
    /\ Contains(resp.out, "unavailable")
    /\ resp.calls = <<"token">>

AudienceMismatch == HTTPException(400, <<"ID token audience mismatch">>)

\* C20: Audience check.  Whenever tokeninfo answers 200 with an aud that is
\* not exactly the configured client id, an absent aud included, the callback
\* ends in AudienceMismatch (400), every other claim being well-formed; the
\* answer sets no cookie and comes after both provider calls.
C20_AudienceCheck ==
    /\ cb.pc = "info" =>
          \A info_res \in InfoReplies :
              (info_res.status_code = 200
                 /\ (info_res.info.aud = None \/ info_res.info.aud # cfg.GOOGLE_CLIENT_ID)) =>
                  callback_on_info(cb.request, info_res, <<now, now, now>>)
                      = AudienceMismatch
    /\ (resp.op = "callback" /\ resp.out = AudienceMismatch) =>
          (resp.calls = <<"token", "tokeninfo">> /\ resp.out.cookies = <<>>)

\* C20 witness: a callback ended in AudienceMismatch after tokeninfo had
\* answered.
C20_Witness ==
    /\ resp.op = "callback" /\ resp.out = AudienceMismatch
    /\ resp.calls = <<"token", "tokeninfo">>

\* ------------------------------------------------- callback terminal states
InvalidIdentityToken == HTTPException(400, <<"Invalid ID token">>)

\* the callback on the wire succeeded: a redirect carrying both session
\* cookies, after both provider calls
CallbackSucceeded ==
    /\ resp.out.status = 302
    /\ Len(resp.out.cookies) = 2
    /\ resp.out.cookies[1].key = "access_token" /\ resp.out.cookies[1].value.raw = "jwt"
    /\ resp.out.cookies[2].key = "refresh_token" /\ resp.out.cookies[2].value.raw = "jwt"
    /\ resp.calls = <<"token", "tokeninfo">>

\* the callback on the wire ended in one of the named failures
CallbackNamedFailure ==
    /\ resp.out.cookies = <<>>
    /\ \/ resp.out \in {MissingCode, MissingCredentials, MissingIdentityToken,
                        InvalidIdentityToken, AudienceMismatch}
       \/ (resp.out.status = 400 /\ Contains(resp.out, "Token exchange failed: "))

\* C21: Every callback ends in exactly one terminal state: success, a 302
\* redirect carrying both session cookies, or one named failure answered
\* with 400 or 500; session tokens are issued and cookies set only in the
\* success state, that is only after the exchange returned 200 with an
\* id_token, tokeninfo returned 200 and the audience matched.
C21_CallbackTerminalStates ==
    resp.op = "callback" =>
        /\ cb.pc = "idle"
        /\ resp.out.status \in {302, 400, 500}
        /\ (CallbackSucceeded /\ ~CallbackNamedFailure)
              \/ (CallbackNamedFailure /\ resp.out.status # 302)

\* C22: When a call to the identity provider times out or fails at transport
\* level, the callback ends in ExchangeFailed (during the code exchange) or
\* InvalidIdentityToken (during introspection), answered with 400, sets no
\* cookie, and no call is retried.  A transport failure is one way for a
\* callback to end, after a provider call, otherwise than by the redirect: so
\* every such end is a 400 of the stage reached, without cookies, each
\* endpoint called at most once.
C22_ProviderFailureIs400 ==
    (resp.op = "callback" /\ resp.calls # <<>> /\ resp.out.status # 302) =>
        /\ resp.out.status = 400
        /\ resp.out.cookies = <<>>
        /\ resp.calls \in {<<"token">>, <<"token", "tokeninfo">>}
        /\ resp.calls = <<"token">> =>
              (resp.out = MissingIdentityToken \/ Contains(resp.out, "Token exchange failed: "))
        /\ resp.calls = <<"token", "tokeninfo">> =>
              resp.out \in {InvalidIdentityToken, AudienceMismatch}

\* ------------------------------------------------------ where a login leads
\* state values a caller may put on the callback URL: absent, a path, and
\* texts that are more than a path
StateValues ==
    { <<>>, <<"/x">>, <<"@", "evil.example">>, <<"//", "evil.example", "/x">>,
      <<"https:", "//", "evil.example", "/x">> }

RedirectRequests ==
    [code : {<<"code">>}, state : StateValues, scheme : {"http"}, host : {"api.example"}]

\* environments with and without FRONTEND_ORIGIN
InitRedirect ==
    InitWith({ [c EXCEPT !.FRONTEND_ORIGIN = o] :
                 c \in Configs, o \in {<<>>, <<"https:", "//", "app.example">>,
                                       <<"https:", "//", "app.example", "/">>} })

\* logins only
NextRedirect ==
    \/ Tick
    \/ \E request \in RedirectRequests : CallbackStart(request)
    \/ \E token_res \in TokenReplies : CallbackToken(token_res)
    \/ \E info_res \in InfoReplies, clk \in ClockReadings(3) : CallbackInfo(info_res, clk)
    \/ Deliver

SpecRedirect == InitRedirect /\ [][NextRedirect]_vars

\* ---- how a browser reads a Location header, given as pieces
PathPieces == {"/", "/x"}

Schemes == {"http:", "https:"}

\* the first piece at or after index from that starts the path
AuthorityEnd(url, from) ==
    LET paths == { i \in from..Len(url) : url[i] \in PathPieces }
    IN  IF paths = {} THEN Len(url) + 1 ELSE CHOOSE i \in paths : \A j \in paths : i <= j

\* the host of the authority that starts at index from: what follows the last
\* "@" (the userinfo ends there)
HostAt(url, from) ==
    LET end == AuthorityEnd(url, from)
        ats == { i \in from..(end - 1) : url[i] = "@" }
        start == IF ats = {} THEN from ELSE 1 + CHOOSE i \in ats : \A j \in ats : i >= j
    IN  SubSeq(url, start, end - 1)

\* the origin the browser ends at when a page of origin own answers with
\* Location: url
Navigate(url, own) ==
    IF Len(url) >= 2 /\ url[1] \in Schemes /\ url[2] = "//"
        THEN <<url[1], "//">> \o HostAt(url, 3)
    ELSE IF Len(url) >= 1 /\ url[1] = "//"
        THEN <<own[1], "//">> \o HostAt(url, 2)
    ELSE own

\* the origin of the callback endpoint itself
OwnOrigin == <<"http:", "//", "api.example">>

\* the origins a login may lead to: the configured frontend, or, where none
\* is configured, the service's own
AllowedOrigins ==
    IF cfg.FRONTEND_ORIGIN = <<>> THEN {OwnOrigin}
    ELSE {Navigate(cfg.FRONTEND_ORIGIN, OwnOrigin)}

\* C23: Redirect containment.  On a successful callback the redirect target
\* is the configured frontend origin followed by the state parameter ("/"
\* when state is absent or empty), and whatever state the caller supplied
\* (an absolute URL, a value starting with "//" or "@", any value where no
\* frontend origin is configured) the browser is sent to no origin but the
\* configured one.
C23_RedirectContainment ==
    /\ cb.pc = "info" =>
          \A info_res \in InfoReplies :
              (info_res.status_code = 200 /\ info_res.info.aud = cfg.GOOGLE_CLIENT_ID) =>
                  callback_on_info(cb.request, info_res, <<now, now, now>>).location
                      = RStripSlash(cfg.FRONTEND_ORIGIN)
                          \o (IF cb.request.state = <<>> THEN <<"/">> ELSE cb.request.state)
    /\ (resp.op = "callback" /\ resp.out.status = 302) =>
          Navigate(resp.out.location, OwnOrigin) \in AllowedOrigins

\* ----------------------------------------------------------- protocol order
\* where a callback stands and which provider calls it has made
C30_OrderInv ==
    /\ cb.pc = "idle" => cb.calls = <<>>
    /\ cb.pc = "token" =>
          (cb.calls = <<"token">> /\ cb.request.code # <<>> /\ CredentialsConfigured)
    /\ cb.pc = "info" => (cb.calls = <<"token", "tokeninfo">> /\ cb.id_token # <<>>)
    /\ resp.op = "callback" =>
          /\ resp.calls \in {<<>>, <<"token">>, <<"token", "tokeninfo">>}
          /\ resp.out.cookies # <<>> => resp.calls = <<"token", "tokeninfo">>

\* one step of a callback: forward by one call, or to its end
C30_OrderStep ==
    /\ cb'.pc = "token" => cb.pc \in {"idle", "token"}
    /\ cb'.pc = "info" => cb.pc \in {"token", "info"}
    /\ (cb.pc # "idle" /\ cb' # cb) => (cb'.pc = "idle" \/ (cb.pc = "token" /\ cb'.pc = "info"))
    /\ (resp'.op = "callback" /\ resp.op # "callback") =>
          /\ cb'.pc = "idle"
          /\ resp'.calls = cb.calls
          /\ resp'.out.status = 302 => cb.pc = "info"

\* C30: Protocol order within one callback.  The token endpoint is called at
\* most once and only after both input checks passed, tokeninfo is called at
\* most once and only after the token endpoint answered 200 with an id_token,
\* the session tokens are issued only after tokeninfo answered; after a
\* failure the callback is over and no step is repeated.
C30_ProtocolOrder == []C30_OrderInv /\ [][C30_OrderStep]_vars

\* C30 witness: a callback was refused after tokeninfo had answered, both
\* endpoints called once each.
C30_Witness ==
    /\ resp.op = "callback" /\ resp.out = InvalidIdentityToken
    /\ resp.calls = <<"token", "tokeninfo">>
    /\ cb.pc = "idle"

\* ---------------------------------------------------- the resource endpoints
\* Two users are logged in and send requests to the endpoints of routes.py.
V1 == <<"q", "j", "M", "S", "Y", "L", "M", "k", "P", "B", "c">>

V2 == <<"d", "Q", "w", "4", "w", "9", "W", "g", "X", "c", "Q">>

WatchUrl(id) == <<"https://", "www.", "youtube.com/watch?v=">> \o id

ShortUrl(id) == <<"https://", "youtu.be/">> \o id \o <<"?", "t", "=", "7", "s">>

OtherUrl == <<"https://", "e", "x", ".", "c", "o", "m", "/">> \o V1

salt == <<"s", "a", "l", "t">>

rice == <<"r", "i", "c", "e">>

\* the access tokens of the logins at time 0
Sessions ==
    { _issue_tokens([id |-> u.sub, email |-> u.email, name |-> u.name,
                     picture |-> u.picture], 0).access : u \in Subjects }

Callers == { <<t>> : t \in jar }

Request(c, path, body) == [cookie |-> c, path |-> path, body |-> body]

\* the largest note id the database hands out while the model follows it
MaxNoteId == 2

HasRoom(d) == \A n \in d.notes : n.id <= MaxNoteId

VideoIds == {V1, V2}

VideoCreates ==
    { [url |-> WatchUrl(V1), title |-> "t1", tags |-> <<<<" ", "S", "a", "l", "t">>, <<" ">>>>],
      [url |-> ShortUrl(V2), title |-> "t1", tags |-> <<>>],
      [url |-> OtherUrl, title |-> "t1", tags |-> <<>>] }

VideoUpdates ==
    { [title |-> <<"t1">>, tags |-> <<>>],
      [title |-> <<>>, tags |-> <<<<>>>>],
      [title |-> <<>>, tags |-> <<<<salt, <<" ">>>>>>] }

NoteCreates == { [id |-> <<<<"1">>>>, timestamp |-> 0, content |-> "c1"] }

SubtitleBodies ==
    { [subtitles |-> <<>>, tags |-> <<>>], [subtitles |-> <<"text">>, tags |-> <<salt>>] }

ImportVideo(id, url, title, tags) == [id |-> id, url |-> url, title |-> title, tags |-> tags]

ImportNote(id, timestamp, content) == [id |-> id, timestamp |-> timestamp, content |-> content]

ImportRequest(videos, notesByVideoId) == [videos |-> videos, notesByVideoId |-> notesByVideoId]

NotesFor(video_id, notes) == [video_id |-> video_id, notes |-> notes]

StoreImports ==
    { ImportRequest(<<ImportVideo(V1, WatchUrl(V1), "t2", <<salt>>)>>,
                    <<NotesFor(V1, <<ImportNote(1, 0, "c1")>>),
                      NotesFor(V2, <<ImportNote(1, 0, "c1")>>)>>) }

\* Depends(get_current_user)
CurrentUser(c) == get_current_user(RequestWith("access_token", c), now)

Refused(current_user) == [db |-> db, out |-> current_user.error]

\* VideoBase: url and title of length 1 at least; tags: at most 20 items
ValidVideoCreate(video) ==
    Len(video.url) >= 1 /\ video.title # "" /\ Len(video.tags) <= MaxTags

\* POST /api/videos
PostVideo(c, video) ==
    /\ Quiet
    /\ LET current_user == CurrentUser(c)
           r == IF current_user.raised THEN Refused(current_user)
                ELSE IF ~ValidVideoCreate(video)
                THEN [db |-> db, out |-> UnprocessableEntity]
                ELSE routes_create_video(db, current_user.user,
                         [video EXCEPT !.tags = validate_tags(@)])
       IN  /\ db' = r.db
           /\ resp' = Sent("create_video", Request(c, <<>>, video), <<now>>, 0, <<>>, r.out)
    /\ UNCHANGED <<cfg, now, jar, cb, race, admitted>>

\* PATCH /api/videos/{video_id}
PatchVideo(c, video_id, video_update) ==
    /\ Quiet
    /\ LET current_user == CurrentUser(c)
           r == IF current_user.raised THEN Refused(current_user)
                ELSE routes_update_video(db, current_user.user, video_id,
                         [video_update EXCEPT !.tags =
                             IF @ = <<>> THEN @ ELSE <<validate_tags(@[1])>>])
       IN  /\ db' = r.db
           /\ resp' = Sent("update_video", Request(c, video_id, video_update), <<now>>,
                           0, <<>>, r.out)
    /\ UNCHANGED <<cfg, now, jar, cb, race, admitted>>

\* DELETE /api/videos/{video_id}
DeleteVideo(c, video_id) ==
    /\ Quiet
    /\ LET current_user == CurrentUser(c)
           r == IF current_user.raised THEN Refused(current_user)
                ELSE routes_delete_video(db, current_user.user, video_id)
       IN  /\ db' = r.db
           /\ resp' = Sent("delete_video", Request(c, video_id, <<>>), <<now>>, 0, <<>>, r.out)
    /\ UNCHANGED <<cfg, now, jar, cb, race, admitted>>

\* GET /api/videos
GetVideos(c) ==
    /\ Quiet
    /\ LET current_user == CurrentUser(c)
           r == IF current_user.raised THEN Refused(current_user)
                ELSE routes_get_videos(db, current_user.user)
       IN  /\ db' = r.db
           /\ resp' = Sent("get_videos", Request(c, <<>>, <<>>), <<now>>, 0, <<>>, r.out)
    /\ UNCHANGED <<cfg, now, jar, cb, race, admitted>>

\* GET /api/videos/{video_id}
GetVideo(c, video_id) ==
    /\ Quiet
    /\ LET current_user == CurrentUser(c)
           r == IF current_user.raised THEN Refused(current_user)
                ELSE routes_get_video(db, current_user.user, video_id)
       IN  /\ db' = r.db
           /\ resp' = Sent("get_video", Request(c, video_id, <<>>), <<now>>, 0, <<>>, r.out)
    /\ UNCHANGED <<cfg, now, jar, cb, race, admitted>>

\* GET /api/videos/{video_id}/notes
GetVideoNotes(c, video_id) ==
    /\ Quiet
    /\ LET current_user == CurrentUser(c)
           r == IF current_user.raised THEN Refused(current_user)
                ELSE routes_get_video_notes(db, current_user.user, video_id)
       IN  /\ db' = r.db
           /\ resp' = Sent("get_video_notes", Request(c, video_id, <<>>), <<now>>, 0, <<>>,
                           r.out)
    /\ UNCHANGED <<cfg, now, jar, cb, race, admitted>>

\* POST /api/videos/{video_id}/notes
PostNote(c, video_id, note) ==
    /\ Quiet
    /\ LET current_user == CurrentUser(c)
           r == IF current_user.raised THEN Refused(current_user)
                ELSE routes_create_note(db, current_user.user, video_id, note)
       IN  /\ HasRoom(r.db)
           /\ db' = r.db
           /\ resp' = Sent("create_note", Request(c, video_id, note), <<now>>, 0, <<>>, r.out)
    /\ UNCHANGED <<cfg, now, jar, cb, race, admitted>>

\* DELETE /api/notes/{note_id}
DeleteNote(c, note_id) ==
    /\ Quiet
    /\ LET current_user == CurrentUser(c)
           r == IF current_user.raised THEN Refused(current_user)
                ELSE routes_delete_note(db, current_user.user, note_id)
       IN  /\ db' = r.db
           /\ resp' = Sent("delete_note", Request(c, note_id, <<>>), <<now>>, 0, <<>>, r.out)
    /\ UNCHANGED <<cfg, now, jar, cb, race, admitted>>

\* GET /api/tags, the handler with its database
GetUserTags(c) ==
    /\ Quiet
    /\ LET current_user == CurrentUser(c)
           r == IF current_user.raised THEN Refused(current_user)
                ELSE routes_get_tags(db, current_user.user)
       IN  /\ db' = r.db
           /\ resp' = Sent("get_user_tags", Request(c, <<>>, <<>>), <<now>>, 0, <<>>, r.out)
    /\ UNCHANGED <<cfg, now, jar, cb, race, admitted>>

\* POST /api/videos/{video_id}/analyze_subtitles
PostAnalyzeSubtitles(c, video_id, body) ==
    /\ Quiet
    /\ LET current_user == CurrentUser(c)
       IN  \E kept \in Sliced(Merged(db, current_user.user, video_id, body)) :
             LET r == IF current_user.raised THEN Refused(current_user)
                      ELSE routes_analyze_subtitles(db, current_user.user, video_id,
                                                    body, kept)
             IN  /\ db' = r.db
                 /\ resp' = Sent("analyze_subtitles", Request(c, video_id, body),
                                 <<now>>, 0, <<>>, r.out)
    /\ UNCHANGED <<cfg, now, jar, cb, race, admitted>>

\* POST /api/import, the handler with its database: the body is validated
\* before the handler runs, the caller is identified inside it
PostImport(c, import_request) ==
    /\ Quiet
    /\ LET identified == import_data(RequestWith("access_token", c), now)
           r == IF ~ValidImportRequest(import_request)
                THEN [db |-> db, out |-> UnprocessableEntity]
                ELSE IF identified.status # 200 THEN [db |-> db, out |-> identified]
                ELSE routes_import_data(db, identified.body.user.id, import_request)
       IN  /\ HasRoom(r.db)
           /\ db' = r.db
           /\ resp' = Sent("import_data", Request(c, <<>>, import_request), <<now>>, 0,
                           <<>>, r.out)
    /\ UNCHANGED <<cfg, now, jar, cb, race, admitted>>

InitStore ==
    /\ cfg \in Configs
    /\ now = 0
    /\ jar = Sessions
    /\ resp = Sent("none", <<>>, <<>>, 0, <<>>, NoResponse)
    /\ cb = IdleCb
    /\ race = IdleRace
    /\ db \in { EmptyDatabase(option) : option \in BOOLEAN }
    /\ admitted = { u.sub : u \in Subjects }

NextStore ==
    \/ \E c \in Callers \cup {<<>>}, video \in VideoCreates : PostVideo(c, video)
    \/ \E c \in Callers, video_id \in VideoIds, video_update \in VideoUpdates :
           PatchVideo(c, video_id, video_update)
    \/ \E c \in Callers, video_id \in VideoIds : DeleteVideo(c, video_id)
    \/ \E c \in Callers : GetVideos(c)
    \/ \E c \in Callers, video_id \in VideoIds : GetVideo(c, video_id)
    \/ \E c \in Callers, video_id \in VideoIds : GetVideoNotes(c, video_id)
    \/ \E c \in Callers, video_id \in VideoIds, note \in NoteCreates :
           PostNote(c, video_id, note)
    \/ \E c \in Callers, note_id \in 1..MaxNoteId : DeleteNote(c, note_id)
    \/ \E c \in Callers : GetUserTags(c)
    \/ \E c \in Callers, video_id \in VideoIds, body \in SubtitleBodies :
           PostAnalyzeSubtitles(c, video_id, body)
    \/ \E c \in Callers, import_request \in StoreImports : PostImport(c, import_request)
    \/ Deliver

SpecStore == InitStore /\ [][NextStore]_vars

\* ------------------------------------------------------------------ claims
StoreOps ==
    {"create_video", "update_video", "delete_video", "get_videos", "get_video",
     "get_video_notes", "create_note", "delete_note", "get_user_tags",
     "analyze_subtitles", "import_data"}

\* the subject of the token a request on the wire came with
Caller(r) == IF r.req.cookie = <<>> THEN None ELSE r.req.cookie[1].payload.sub

\* a video with the notes and the video-tag links that belong to it
Belongings(d, v) ==
    [video |-> d.videos \cap {v},
     notes |-> { n \in d.notes : n.video_id = v.id },
     video_tags |-> { l \in d.video_tags : l.video_id = v.id }]

\* the ids of the videos a response shows a row of
VideosShown(out) ==
    IF out.status = 200 /\ out.body.key = "rows"
    THEN { r.id : r \in out.body.videos } \cup { r.video_id : r \in out.body.notes }
    ELSE {}

\* the tag names a response of GET /api/tags lists
TagsListed(r) ==
    IF r.op = "get_user_tags" /\ r.out.status = 200 THEN r.out.body.tags ELSE {}

C24_Step ==
    (resp.op = "none" /\ resp'.op \in StoreOps) =>
        LET a == Caller(resp')
            others == { v \in db.videos : v.user_id # a }
        IN  /\ \A v \in others :
                  /\ Belongings(db', v) = Belongings(db, v)
                  /\ v.id \notin VideosShown(resp'.out)
            /\ \A name \in TagsListed(resp') :
                  \E v \in db.videos, t \in db.tags :
                      /\ v.user_id = a
                      /\ t.name = name
                      /\ VideoTag(v.id, t.id) \in db.video_tags

\* C24: Tenant isolation.  Whatever resource request (create, update,
\* delete, list, get, notes, note create and delete, tags, analyze_subtitles,
\* import) a user A sends in whatever reachable state, every video owned by
\* another user stays as it is with all its notes and video-tag links, the
\* response shows no row of such a video or of its notes, and GET /api/tags
\* lists only tags linked to a video of A.
C24_TenantIsolation == [][C24_Step]_vars

\* A user asked to delete a video that another user owns, with a note and a
\* tag on it, and was answered 404
C24_Witness ==
    /\ resp.op = "delete_video"
    /\ resp.out.status = 404
    /\ \E v \in db.videos :
          /\ v.id = resp.req.path
          /\ v.user_id # Caller(resp)
          /\ Belongings(db, v).notes # {}
          /\ Belongings(db, v).video_tags # {}
    /\ \E v \in db.videos : v.user_id = Caller(resp)

\* the URL holds this id behind one of the YouTube prefixes
NamesVideo(url, id) ==
    \E i \in 1..Len(url) :
        /\ url[i] \in {"youtube.com/watch?v=", "youtu.be/", "youtube.com/embed/"}
        /\ i + 11 <= Len(url)
        /\ SubSeq(url, i + 1, i + 11) = id

NoYouTubeUrl(url) ==
    \A i \in 1..Len(url) :
        url[i] \notin {"youtube.com/watch?v=", "youtu.be/", "youtube.com/embed/"}

C28_Step ==
    (resp.op = "none" /\ resp'.op = "create_video" /\ Caller(resp') # None) =>
        LET url == resp'.req.body.url
        IN  /\ (\E v \in db.videos : v.user_id = Caller(resp') /\ NamesVideo(url, v.id))
                => /\ resp'.out = HTTPException(400, <<"Video already exists">>)
                   /\ db' = db
            /\ NoYouTubeUrl(url)
                => /\ resp'.out = HTTPException(400, <<"Invalid YouTube URL">>)
                   /\ db' = db

Deleted == resp.op = "delete_video" /\ resp.out.status = 200

\* C29: Once DELETE /api/videos/{id} has succeeded, GET of that video by the
\* same caller is answered 404 and no note and no video-tag link of that id
\* is stored; and in every reachable state each note and each video-tag link
\* names a video that is stored.
C29_DeleteCascades ==
    /\ \A n \in db.notes : \E v \in db.videos : v.id = n.video_id
    /\ \A l \in db.video_tags : \E v \in db.videos : v.id = l.video_id
    /\ Deleted =>
          /\ routes_get_video(db, [NoUser EXCEPT !.id = Caller(resp)], resp.req.path).out
                 = HTTPException(404, <<"Video not found">>)
          /\ \A n \in db.notes : n.video_id # resp.req.path
          /\ \A l \in db.video_tags : l.video_id # resp.req.path

\* A video was deleted while the other user's video, with its note and its
\* tag, is stored
C29_Witness ==
    /\ Deleted
    /\ db.tags # {}
    /\ \E v \in db.videos :
          /\ v.user_id # Caller(resp)
          /\ Belongings(db, v).notes # {}
          /\ Belongings(db, v).video_tags # {}

\* ------------------------------------------------------------ imports only
\* The two users import payloads of a few videos and note lists.
MaxItems == 2

oil == <<"o", "i", "l">>

\* an id of ten characters
WrongId == <<"w", "r", "o", "n", "g", "i", "d", "1", "2", "3">>

ImportVideos ==
    { ImportVideo(V1, WatchUrl(V1), "t1", <<salt, rice, salt>>),
      ImportVideo(V1, WatchUrl(V1), "t2", <<salt>>),
      ImportVideo(V2, ShortUrl(V2), "t1", <<salt, rice, oil>>),
      ImportVideo(V2, WatchUrl(V1), "t1", <<>>),
      ImportVideo(WrongId, WatchUrl(V1), "t1", <<>>) }

NoteLists ==
    { <<>>,
      <<NotesFor(V1, <<ImportNote(1, 0, "c1")>>)>>,
      <<NotesFor(V2, <<ImportNote(1, 0, "c1")>>),
        NotesFor(V1, <<ImportNote(1, 0, "c2"), ImportNote(2, 0, "c1")>>)>> }

ImportRequests ==
    { ImportRequest(videos, notes) :
        videos \in UNION { [1..n -> ImportVideos] : n \in 0..MaxItems },
        notes \in NoteLists }

InitImport == InitStore

NextImport ==
    \/ \E c \in Callers, import_request \in ImportRequests : PostImport(c, import_request)
    \/ Deliver

SpecImport == InitImport /\ [][NextImport]_vars

\* an import was answered 200
Imported == resp.op = "import_data" /\ resp.out.status = 200

\* the same caller sending the same payload once more, in the state the
\* first import left
ImportedAgain == routes_import_data(db, Caller(resp), resp.req.body)

\* C25: Import is idempotent.  After an import that was answered 200, the
\* same payload imported once more by the same caller is answered 200 with
\* videos_created = 0 and notes_created = 0, counts as updated every item
\* the first import counted as created or updated, and leaves the stored
\* videos, tags, notes and video-tag links as the first import left them.
C25_ImportIdempotent ==
    Imported =>
        LET first == resp.out.body.stats
            again == ImportedAgain
        IN  /\ again.out.status = 200
            /\ again.out.body.stats.videos_created = 0
            /\ again.out.body.stats.notes_created = 0
            /\ again.out.body.stats.videos_updated =
                   first.videos_created + first.videos_updated
            /\ again.out.body.stats.notes_updated =
                   first.notes_created + first.notes_updated
            /\ again.db = db

\* the same, where the session flushes before each query
C25_IdempotentWithAutoflush == db.autoflush => C25_ImportIdempotent

\* the places of the payload's videos whose id is not the one in their URL
Mismatched(import_request) ==
    { i \in 1..Len(import_request.videos) :
        ~NamesVideo(import_request.videos[i].url, import_request.videos[i].id) }

\* the places of the note lists keyed by a video the caller has not, the
\* payload's own videos imported
Unowned(d, a, import_request) ==
    { i \in 1..Len(import_request.notesByVideoId) :
        ~\E v \in d.videos : /\ v.id = import_request.notesByVideoId[i].video_id
                             /\ v.user_id = a }

HasMessage(errors, text, id) == \E k \in 1..Len(errors) : errors[k] = text \o id

\* C26: Import rejects bad items one by one.  Where the payload of an
\* import by an identified caller holds a video whose id differs from the id
\* in its URL, or a note list keyed by a video the caller does not have, the
\* response is 200 with success = false and one message in errors for each
\* such item, no video and no note is stored for it, and every other video
\* of the payload is stored for the caller.
C26_BadItemsOneByOne ==
    (resp.op = "import_data" /\ Caller(resp) # None) =>
        LET p == resp.req.body
            a == Caller(resp)
            bad == Mismatched(p)
            unowned == Unowned(db, a, p)
        IN  (bad # {} \/ unowned # {}) =>
              /\ resp.out.status = 200
              /\ resp.out.body.success = FALSE
              /\ Len(resp.out.body.errors) = Cardinality(bad) + Cardinality(unowned)
              /\ \A i \in bad :
                    HasMessage(resp.out.body.errors,
                               <<"Invalid video ID/URL mismatch for ">>, p.videos[i].id)
              /\ \A i \in unowned :
                    /\ HasMessage(resp.out.body.errors,
                                  <<"Cannot import notes for non-existent video ">>,
                                  p.notesByVideoId[i].video_id)
                    /\ \A n \in db.notes : n.video_id # p.notesByVideoId[i].video_id
                                           \/ \E v \in db.videos : v.id = n.video_id
                                                                   /\ v.user_id # a
              /\ \A i \in (1..Len(p.videos)) \ bad :
                    \E v \in db.videos : v.id = p.videos[i].id /\ v.user_id = a

\* the tags linked to a video of user a
TagsOf(d, a) ==
    { t \in d.tags :
        \E v \in d.videos : v.user_id = a /\ VideoTag(v.id, t.id) \in d.video_tags }

C27_Step ==
    (resp.op = "none" /\ resp'.op = "import_data" /\ resp'.out.status = 200) =>
        LET a == Caller(resp')
            tags_created == resp'.out.body.stats.tags_created
        IN  /\ tags_created = Cardinality(TagsOf(db', a) \ TagsOf(db, a))
            /\ tags_created >= 0

\* C27: The tags_created statistic of an import answered 200 is the number
\* of distinct tags linked to a video of the caller after the import and to
\* none before it (3 for one new video with three new tags, the links of
\* the last video processed counted), and it is never negative, also where
\* a video is imported again with fewer tags.
C27_TagsCreated == [][C27_Step]_vars

\* ---------------------------------------------------- where identities come from
\* C31: Every identity that session resolution returns comes from the OAuth2
\* exchange.  Whatever callbacks, refreshes, logouts and resolutions came
\* before: the subject an identity-resolving endpoint answers 200 for, the
\* subject of both tokens a successful refresh sets, and the subject
\* get_current_user resolves any held token to, is the subject of a tokeninfo
\* answer that passed the audience check of an earlier callback.
C31_IdentityFromExchange ==
    /\ (resp.op \in IdentityOps /\ resp.out.status = 200) =>
          resp.out.body.user.id \in admitted
    /\ (resp.op = "refresh" /\ resp.out.status = 200) =>
          \A i \in 1..Len(resp.out.cookies) :
              resp.out.cookies[i].value.payload.sub \in admitted
    /\ \A tok \in jar :
          LET current_user == get_current_user(RequestWith("access_token", <<tok>>), now)
          IN  ~current_user.raised => current_user.user.id \in admitted

\* C31 witness: after a logout, GET /me resolved an access token of a subject
\* whose tokens were issued at two times at least (the client holds an older
\* refresh token of the same subject), while a callback had admitted the
\* other subject as well.
C31_Witness ==
    /\ resp.op = "me" /\ resp.out.status = 200
    /\ resp.after = "logout"
    /\ admitted = { u.sub : u \in Subjects }
    /\ resp.req[1].payload.type = None
    /\ \E old \in jar :
         /\ old.payload.type = "refresh"
         /\ old.payload.sub = resp.out.body.user.id
         /\ old.payload.iat < resp.req[1].payload.iat

\* ------------------------------------------------------------ tags per video
\* the names of the tags linked to a video
TagNamesOf(d, video_id) ==
    { t.name : t \in { t \in d.tags : VideoTag(video_id, t.id) \in d.video_tags } }

\* no video has more than MaxTags tags linked
C32_AtMostMaxTags ==
    \A v \in db.videos : Cardinality(TagNamesOf(db, v.id)) <= MaxTags

\* the tags analyze_subtitles answers with are the tags stored for the video
C32_AnalyzeReturnsStored ==
    (resp.op = "analyze_subtitles" /\ resp.out.status = 200) =>
        resp.out.body.tags = TagNamesOf(db, resp.req.path)

\* C32: No video ever has more than 20 tags, in every state that create,
\* update, import and analyze_subtitles lead to; and the list of tags
\* analyze_subtitles returns is the list of the tags stored for the video
\* after it.
C32_TagLimit == C32_AtMostMaxTags /\ C32_AnalyzeReturnsStored


\* ------------------------------------------------------------- tags are unique
\* lists that name one tag twice: exactly, differing in case and in
\* surrounding blanks, and with another tag in between
RepeatingLists ==
    { <<salt, salt>>, <<salt, <<" ", "S", "a", "l", "t">>>>, <<salt, rice, salt>> }

\* what the request's commit makes of add_tags_to_video called with these
\* names for this video in a session of its own
TagsAdded(video_id, tag_names) ==
    flush(add_tags_to_video(SessionLocal(db), video_id, tag_names))

\* C33: Tags are unique up to case and each video links a tag at most once.
\* In every reachable state no two tag rows have names that are equal
\* ignoring case; and add_tags_to_video, given for a stored video a list
\* that names a tag twice (exactly, or differing only in case or surrounding
\* blanks), does not fail, the commit after it included, and leaves every
\* name of the list linked to the video by one tag.
C33_TagsUnique ==
    /\ \A t1, t2 \in db.tags : Lower(t1.name) = Lower(t2.name) => t1 = t2
    /\ \A v \in db.videos : \A tag_names \in RepeatingLists :
          LET added == TagsAdded(v.id, tag_names)
          IN  /\ ~added.raised
              /\ \A i \in 1..Len(tag_names) :
                    Cardinality({ t \in added.tags :
                                    /\ Lower(t.name) = Lower(Strip(tag_names[i]))
                                    /\ VideoTag(v.id, t.id) \in added.video_tags }) = 1

\* the same, where the session flushes before each query
C33_UniqueWithAutoflush == db.autoflush => C33_TagsUnique


\* ------------------------------------------------------- client ids of notes
\* the notes of a video with a client id
NotesWith(d, video_id, client_note_id) ==
    { n \in d.notes : n.video_id = video_id /\ n.client_note_id = client_note_id }

\* the owner of a stored note's video
OwnerOf(n) == (CHOOSE v \in db.videos : v.id = n.video_id).user_id

\* POST /api/videos/{video_id}/notes by the note's owner, with the client id,
\* timestamp and content of stored note n
CreatedAgain(n) ==
    routes_create_note(db, [NoUser EXCEPT !.id = OwnerOf(n)], n.video_id,
                       [id |-> <<n.client_note_id>>, timestamp |-> n.timestamp_sec,
                        content |-> n.content])

\* POST /api/import by the note's owner of a payload with one note, whose id
\* k is the client id of stored note n
ImportedAgainNote(n, k) ==
    routes_import_data(db, OwnerOf(n),
        ImportRequest(<<>>, <<NotesFor(n.video_id,
                                       <<ImportNote(k, n.timestamp_sec, n.content)>>)>>))

\* C34: The client-side note id makes note creation idempotent.  In every
\* reachable state a video has at most one note per client_note_id; and
\* create_note, or an import, submitted by the owner with a client id that
\* a note of the video has already, is answered 200 and leaves the video
\* with that one note of the client id.
C34_NoteIdempotent ==
    /\ \A n \in db.notes : NotesWith(db, n.video_id, n.client_note_id) = {n}
    /\ \A n \in db.notes :
          /\ CreatedAgain(n).out.status = 200
          /\ Cardinality(NotesWith(CreatedAgain(n).db, n.video_id, n.client_note_id)) = 1
          /\ \A k \in 1..MaxNoteId :
                PyStr(k) = n.client_note_id =>
                    /\ ImportedAgainNote(n, k).out.status = 200
                    /\ Cardinality(NotesWith(ImportedAgainNote(n, k).db, n.video_id,
                                             n.client_note_id)) = 1


\* -------------------------------------------------- expiry later than issue
\* C35: Every token _issue_tokens issues expires strictly later than it was
\* issued, whatever the TTL settings are: both tokens of a login carry an
\* exp claim greater than their iat claim and verify at the time they were
\* issued.
C35_ExpiresAfterIssued ==
    (resp.op = "callback" /\ resp.out.status = 302) =>
        \A i \in 1..Len(resp.out.cookies) :
            LET tok == resp.out.cookies[i].value
            IN  /\ tok.payload.exp > tok.payload.iat
                /\ _verify_token(tok, resp.clk[1]) = <<tok.payload>>


\* ------------------------------------------------------- sliding expiration
\* the refresh token that the answer to a refresh sets
NewRefresh(out) == out.cookies[2].value

\* the refresh TTL of the configuration, in seconds
RefreshTtl == _parse_ttl(cfg.REFRESH_TOKEN_TTL)

\* C36: Each successful refresh issues a refresh token that expires exactly
\* the configured refresh TTL after the time of the refresh (in the whole
\* seconds of its iat and exp claims), whatever the expiry of the presented
\* token is; hence a session can be kept valid at any later time by
\* refreshes: every held refresh token that has not expired buys, when
\* presented now, a refresh token valid for the refresh TTL from now, so no
\* time after the login ends the session.
C36_SlidingExpiry ==
    /\ (resp.op = "refresh" /\ resp.out.status = 200) =>
          /\ NewRefresh(resp.out).payload.type = "refresh"
          /\ NewRefresh(resp.out).payload.iat = NumericDate(resp.clk[2])
          /\ NewRefresh(resp.out).payload.exp = NumericDate(resp.clk[2]) + RefreshTtl
    /\ \A R \in jar :
          (R.payload.type = "refresh" /\ now < ExpTicks(R)) =>
              LET out == refresh(RequestWith("refresh_token", <<R>>),
                                 <<now, now, now, now>>)
              IN  /\ out.status = 200
                  /\ NewRefresh(out).payload.exp = NumericDate(now) + RefreshTtl
                  /\ ExpTicks(NewRefresh(out)) > now

\* C36 witness: a refresh succeeded at a time when the refresh token of the
\* login at time 0 had expired, for a refresh token issued by an earlier
\* refresh, and the new token expires later than the presented one.
C36_Witness ==
    /\ resp.op = "refresh" /\ resp.out.status = 200
    /\ resp.req[1].payload.iat > 0
    /\ \E first \in jar :
         /\ first.payload.type = "refresh"
         /\ first.payload.iat = 0
         /\ first.payload.sub = resp.req[1].payload.sub
         /\ ExpTicks(first) <= resp.clk[1]
    /\ ExpTicks(NewRefresh(resp.out)) > ExpTicks(resp.req[1])


\* ------------------------------------------------------------ refused refresh
\* the refresh cookie c cannot be accepted at time t: it is absent, it is not
\* a token this server issued to the client (garbage, re-signed, altered,
\* unsigned), it has expired, or it is not of kind refresh
RefreshMustFail(c, t) ==
    \/ c = <<>>
    \/ c[1] \notin jar
    \/ ExpTicks(c[1]) <= t
    \/ c[1].payload.type # "refresh"

\* C37: A POST /refresh that fails (refresh cookie absent, not verifiable,
\* expired, or not of kind refresh) answers 401 Unauthorized and sets or
\* deletes no cookie, so the cookies the client holds are the same after the
\* answer arrived.
C37_FailedRefreshStep ==
    (resp.op = "refresh"
        /\ (resp.out.status # 200 \/ RefreshMustFail(resp.req, resp.clk[1]))) =>
       /\ resp.out.status = 401
       /\ resp.out.body = Body("message", <<"Unauthorized">>, NoUser)
       /\ resp.out.cookies = <<>>
       /\ jar' = jar

C37_FailedRefreshKeepsCookies == [][C37_FailedRefreshStep]_vars

\* C37 witness: a refresh presenting a held refresh token that has expired
\* was answered 401 while the client holds an access token still valid.
C37_Witness ==
    /\ resp.op = "refresh" /\ resp.out.status = 401
    /\ resp.req # <<>>
    /\ resp.req[1] \in jar
    /\ resp.req[1].payload.type = "refresh"
    /\ ExpTicks(resp.req[1]) <= resp.clk[1]
    /\ \E a \in jar : a.payload.type = None /\ ExpTicks(a) > now


\* ------------------------------------------- two create-video requests at once
\* create_video is a plain def: FastAPI runs each request in a thread of its
\* pool, with a session of its own (get_db).  Between the query of line 181
\* and the INSERT of crud.create_video another request may run.  The INSERT,
\* the tag rows and the COMMIT of one request are one step: the database
\* lets one writer at a time change the videos row of one id.

\* routes.py create_video up to the check of lines 181-182: the exception
\* it raises, <<>> where it goes on
create_video_check(d, current_user, video) ==
    With(extract_video_id(video.url), LAMBDA video_id :
        IF video_id = <<>>
        THEN <<HTTPException(400, <<"Invalid YouTube URL">>)>>
        ELSE IF crud_get_video(SessionLocal(d), current_user.id, video_id[1]) # {}
        THEN <<HTTPException(400, <<"Video already exists">>)>>
        ELSE <<>>)

\* routes.py create_video from line 184 on, on the database as it is when
\* the INSERT is emitted
create_video_insert(d, current_user, video) ==
    With(extract_video_id(video.url), LAMBDA video_id :
    With(crud_create_video(d, SessionLocal(d), current_user.id, video, video_id[1]),
         LAMBDA c :
        IF c.raised THEN [db |-> d, out |-> InternalServerError]
        ELSE [db |-> c.db,
              out |-> Ok(Rows({ VideoResponse(v,
                                   crud_get_video_tags(SessionLocal(c.db),
                                       current_user.id, video_id[1])) :
                                 v \in c.value }, {}, {}))]))

\* race while two create-video requests are followed: the request both
\* clients send, whether no video of its id was stored when they were sent,
\* where each handler is, and what each answered
IdleCreate ==
    [pc |-> "idle", request |-> Request(<<>>, <<>>, <<>>), fresh |-> FALSE,
     at |-> <<"idle", "idle">>, out |-> <<NoResponse, NoResponse>>]

CreateStart(c, video) ==
    /\ Quiet
    /\ race.pc = "idle"
    /\ race' = [pc |-> "sent", request |-> Request(c, <<>>, video),
                fresh |-> /\ extract_video_id(video.url) # <<>>
                          /\ \A v \in db.videos : <<v.id>> # extract_video_id(video.url),
                at |-> <<"start", "start">>, out |-> <<NoResponse, NoResponse>>]
    /\ UNCHANGED <<cfg, now, jar, resp, cb, db, admitted>>

\* handler i up to line 182
CreateCheck(i) ==
    /\ Quiet
    /\ race.pc = "sent"
    /\ race.at[i] = "start"
    /\ LET video == race.request.body
           current_user == CurrentUser(race.request.cookie)
           refused == IF current_user.raised THEN <<current_user.error>>
                      ELSE IF ~ValidVideoCreate(video) THEN <<UnprocessableEntity>>
                      ELSE create_video_check(db, current_user.user,
                               [video EXCEPT !.tags = validate_tags(@)])
       IN  race' = IF refused # <<>>
                   THEN [race EXCEPT !.at[i] = "done", !.out[i] = refused[1]]
                   ELSE [race EXCEPT !.at[i] = "checked"]
    /\ UNCHANGED <<cfg, now, jar, resp, cb, db, admitted>>

\* handler i from line 184 to its answer
CreateInsert(i) ==
    /\ Quiet
    /\ race.pc = "sent"
    /\ race.at[i] = "checked"
    /\ LET video == race.request.body
           current_user == CurrentUser(race.request.cookie)
           r == create_video_insert(db, current_user.user,
                    [video EXCEPT !.tags = validate_tags(@)])
       IN  /\ db' = r.db
           /\ race' = [race EXCEPT !.at[i] = "done", !.out[i] = r.out]
    /\ UNCHANGED <<cfg, now, jar, resp, cb, admitted>>

\* both answers have reached their clients
CreateEnd ==
    /\ race.pc = "sent"
    /\ race.at = <<"done", "done">>
    /\ race' = IdleCreate
    /\ UNCHANGED <<cfg, now, jar, resp, cb, db, admitted>>

InitCreate ==
    /\ cfg \in Configs
    /\ now = 0
    /\ jar = Sessions
    /\ resp = Sent("none", <<>>, <<>>, 0, <<>>, NoResponse)
    /\ cb = IdleCb
    /\ race = IdleCreate
    /\ db \in { EmptyDatabase(option) : option \in BOOLEAN }
    /\ admitted = { u.sub : u \in Subjects }

NextCreate ==
    \/ \E c \in Callers, video \in VideoCreates : CreateStart(c, video)
    \/ \E i \in 1..2 : CreateCheck(i)
    \/ \E i \in 1..2 : CreateInsert(i)
    \/ CreateEnd
    \/ \E c \in Callers, video_id \in VideoIds : race.pc = "idle" /\ DeleteVideo(c, video_id)
    \/ Deliver

SpecCreate == InitCreate /\ [][NextCreate]_vars

\* the two steps of a handler, one after the other with no request between
\* them, are create_video
CreateStepsAreCreateVideo ==
    \A c \in Callers, video \in VideoCreates :
        LET current_user == CurrentUser(c).user
            checked == create_video_check(db, current_user, video)
        IN  routes_create_video(db, current_user, video)
              = IF checked # <<>> THEN [db |-> db, out |-> checked[1]]
                ELSE create_video_insert(db, current_user, video)

\* both handlers have answered two requests sent when no video of the id
\* was stored
BothAnswered == race.pc = "sent" /\ race.at = <<"done", "done">> /\ race.fresh

\* C38: When two create-video requests of the same user for the same
\* YouTube id run concurrently, under every interleaving exactly one
\* creates the video (200) and the other is rejected with 400 "Video
\* already exists"; neither ends in an unhandled storage error (500).
C38_ExactlyOneCreates ==
    BothAnswered =>
        /\ \E i \in 1..2 :
              /\ race.out[i].status = 200
              /\ race.out[3 - i] = HTTPException(400, <<"Video already exists">>)
        /\ \A i \in 1..2 : race.out[i] # InternalServerError

\* what the code keeps of it: one video of the id is stored, one request
\* created it, and the other was refused, with 400 or with 500
C38_AtMostOneCreates ==
    BothAnswered =>
        /\ Cardinality({ v \in db.videos :
                           <<v.id>> = extract_video_id(race.request.body.url) }) = 1
        /\ \E i \in 1..2 :
              /\ race.out[i].status = 200
              /\ race.out[3 - i] \in {HTTPException(400, <<"Video already exists">>),
                                      InternalServerError}


\* ----------------------------------------------------------- tenants apart
\* the store with nothing in it but what user a has stored: a's videos, their
\* notes and tag links, and the tags those links name
Own(d, a) ==
    LET mine == { v.id : v \in { v \in d.videos : v.user_id = a } }
        links == { l \in d.video_tags : l.video_id \in mine }
    IN  [videos |-> { v \in d.videos : v.user_id = a },
         notes |-> { n \in d.notes : n.video_id \in mine },
         video_tags |-> links,
         tags |-> { t \in d.tags : \E l \in links : l.tag_id = t.id },
         autoflush |-> d.autoflush]

\* the answer to request r of an identified caller, had it met store d
AnswerOn(d, r) ==
    LET current_user == CurrentUser(r.req.cookie).user
    IN  IF r.op = "create_video"
        THEN routes_create_video(d, current_user,
                 [r.req.body EXCEPT !.tags = validate_tags(@)]).out
        ELSE IF r.op = "update_video"
        THEN routes_update_video(d, current_user, r.req.path,
                 [r.req.body EXCEPT !.tags =
                     IF @ = <<>> THEN @ ELSE <<validate_tags(@[1])>>]).out
        ELSE routes_import_data(d, current_user.id, r.req.body).out

C39_Step ==
    (resp.op = "none"
        /\ resp'.op \in {"create_video", "update_video", "import_data"}
        /\ resp'.out.status \notin {401, 422}) =>
       resp'.out = AnswerOn(Own(db, Caller(resp')), resp')

\* C39: Tenants do not interfere.  The answer (status and returned data) to
\* a create-video, update-video or import request of user A is the answer
\* the same request gets from the store that holds only what A has stored:
\* the videos, notes and tags of other users make no difference.
C39_TenantsDoNotInterfere == [][C39_Step]_vars


\* --------------------------------------------------- what an import leaves
\* the errors of an answered import name video item i of its payload
VideoListed(r, i) ==
    \/ HasMessage(r.out.body.errors, <<"Invalid video ID/URL mismatch for ">>,
                  r.req.body.videos[i].id)
    \/ HasMessage(r.out.body.errors, <<"Error importing video ">>,
                  r.req.body.videos[i].id)

\* the errors name note k of note list i, or the video of the list
NoteListed(r, i, k) ==
    LET item == r.req.body.notesByVideoId[i]
    IN  \/ HasMessage(r.out.body.errors,
                      <<"Cannot import notes for non-existent video ">>, item.video_id)
        \/ HasMessage(r.out.body.errors,
                      <<"Error importing note ">> \o PyStr(item.notes[k].id)
                          \o <<" for video ">>, item.video_id)

\* the last video item of the payload with the id of item i that the errors
\* do not name
LastOf(r, i) ==
    CHOOSE j \in i..Len(r.req.body.videos) :
        /\ r.req.body.videos[j].id = r.req.body.videos[i].id
        /\ \A m \in (j + 1)..Len(r.req.body.videos) :
              r.req.body.videos[m].id # r.req.body.videos[i].id

\* tag names as the store compares them
Folded(names) == { Lower(Strip(n)) : n \in { n \in names : Strip(n) # <<>> } }

C40_Step ==
    (resp.op = "none" /\ resp'.op = "import_data") =>
       LET r == resp'
           a == Caller(r)
           videos == r.req.body.videos
           lists == r.req.body.notesByVideoId
       IN  /\ r.out.status = 500 => db' = db
           /\ r.out.status = 200 =>
                /\ \A i \in 1..Len(videos) :
                      ~VideoListed(r, i) =>
                         \E v \in db'.videos :
                            /\ v.id = videos[i].id
                            /\ v.user_id = a
                            /\ v.url = videos[LastOf(r, i)].url
                            /\ v.title = videos[LastOf(r, i)].title
                            /\ Folded({ videos[LastOf(r, i)].tags[t] :
                                         t \in 1..Len(videos[LastOf(r, i)].tags) })
                                 \subseteq
                                   Folded(crud_get_video_tags(SessionLocal(db'), a, v.id))
                /\ \A i \in 1..Len(lists) : \A k \in 1..Len(lists[i].notes) :
                      ~NoteListed(r, i, k) =>
                         \E n \in db'.notes :
                            /\ n.video_id = lists[i].video_id
                            /\ n.client_note_id = PyStr(lists[i].notes[k].id)
                            /\ n.timestamp_sec = lists[i].notes[k].timestamp
                            /\ n.content = lists[i].notes[k].content
                            /\ \E v \in db'.videos : v.id = n.video_id /\ v.user_id = a

\* C40: An import that ends with HTTP 500 leaves the store exactly as it was
\* before the request (the videos, notes, tags and tag links that import
\* wrote are rolled back), while an import that ends with 200 has committed
\* every item that its errors do not list: each such video is stored for
\* the caller with the url and title the payload gave it last and linked to
\* every tag that item names, each such note is stored under its video with
\* its client id, timestamp and content.
C40_ImportAllOrListed == [][C40_Step]_vars

\* C40 witness: an import was answered 500 after its session had written a
\* video: the first item of the payload, imported alone, is answered 200 and
\* stores a video that the store does not hold.
C40_Witness ==
    /\ resp.op = "import_data" /\ resp.out.status = 500
    /\ Len(resp.req.body.videos) = 2
    /\ LET alone == routes_import_data(db, Caller(resp),
                        ImportRequest(<<resp.req.body.videos[1]>>, <<>>))
       IN  /\ alone.out.status = 200
           /\ alone.out.body.stats.videos_created = 1
           /\ alone.db # db

\* an import was answered 200 with an error listed and a video stored
C40_PartialSuccess ==
    /\ resp.op = "import_data" /\ resp.out.status = 200
    /\ resp.out.body.errors # <<>>
    /\ resp.out.body.stats.videos_created = 1
    /\ \E i \in 1..Len(resp.req.body.videos) : ~VideoListed(resp, i)

=============================================================================
